---- MODULE Spec2Model ----
(***************************************************************************)
(* Notemd-mcp: the document processing pipeline.                           *)
(*                                                                         *)
(* A text is a sequence of one-character strings.  The module holds several *)
(* specifications over one set of variables:                               *)
(*   SpecSplit     splitMarkdown applied to every bounded text             *)
(*   SpecGuard     scheduleWithTimeout around one operation                *)
(*   SpecPipeline  TaskScheduler.runProcessing -> processMarkdown -> the   *)
(*                 provider calls, with the three timers of the run        *)
(*   SpecRules     applyRules, normalizeKeyword and the keyword extraction *)
(*   SpecBacklinks createBacklinks called again and again                  *)
(*   SpecInterleaved two createBacklinks calls, await by await             *)
(*   SpecClean     cleanDuplicateFiles on a directory, run after run       *)
(*   SpecScheduler TaskScheduler.start: the initial run and the cron runs  *)
(*   SpecTool      the delete_duplicates tool on a tree of files           *)
(***************************************************************************)
EXTENDS Integers, Sequences, FiniteSets, TLC

VARIABLES
    mode,        \* which entry point the behaviour exercises
    content,     \* the document text handed to splitMarkdown / processMarkdown
    chunkSize,   \* the chunkSize argument / option
    splitResult, \* splitMarkdown's return value, <<"none">> before the call
    now,         \* the event loop's clock, in ms
    timerQ,      \* the pending setTimeout timers, in the order they were set
    fireLog,     \* the timers whose callback has run, in the order they ran
    guards,      \* one record per scheduleWithTimeout call: its promise and timer
    opState,     \* SpecGuard: what the wrapped operation fn did
    raceWinner,  \* SpecGuard: which event was delivered first
    timeoutHours,    \* config.timeoutHours of the run
    provider,        \* config.provider of the run
    runState,        \* TaskScheduler.runProcessing: idle, running, completed, failed
    pc,              \* where the pipeline body of processMarkdown stands
    chunks,          \* the body's chunks
    splitCalled,     \* whether the body called splitMarkdown
    callState,       \* per chunk: idle, inflight, ok, error, aborted
    responses,       \* per chunk: the text the backend answered, <<"none">> without one
    processedChunks, \* the body's processedChunks array
    callLog,         \* the backend calls' starts and ends, in order
    merged,          \* processedChunks.join, <<"none">> before the loop ends
    keywordList,     \* keyword_list.txt of the output directory
    timersPhase,     \* the event loop is running the due timers
    rulesOut,        \* applyRules' text after each of its rules, <<"none">> before the call
    normOut,         \* normalizeKeyword's return value, <<"none">> before the call
    keysOut,         \* the keys of extractAndSaveKeywords' keywordMap, <<"none">> before
    backlinksDir,    \* the files of BACKLINKS_DIR: file name -> content
    blCalls,         \* the createBacklinks calls made, in order
    blProcs,         \* the createBacklinks calls under way: where each is
    outDir,          \* the files of the output directory, in readdir order
    clean,           \* the cleanDuplicateFiles call in progress
    cleanLog,        \* the cleanDuplicateFiles calls that ended, in order
    outLog,          \* what the pipeline body did to the output directory, in order
    inputDir,        \* the files of config.inputDir, in readdir order
    runs,            \* the runProcessing executions of the TaskScheduler, in order
    cronOn,          \* start() has registered the cron task
    tree,            \* the .md and other files below the tool's paths, by path
    toolResult       \* what the delete_duplicates tool answered, <<"none">> before

splitVars == <<content, chunkSize, splitResult>>
timeVars == <<now, timerQ, fireLog, guards>>
guardVars == <<opState, raceWinner>>

pipeVars == <<timeoutHours, provider, runState, pc, chunks, splitCalled, callState,
              responses, processedChunks, callLog, merged, keywordList, timersPhase>>

idxVars == <<rulesOut, normOut, keysOut, backlinksDir, blCalls, blProcs>>

dirVars == <<outDir, clean, cleanLog, outLog>>

schedVars == <<inputDir, runs, cronOn>>

toolVars == <<tree, toolResult>>

vars == <<mode, content, chunkSize, splitResult, now, timerQ, fireLog, guards,
          opState, raceWinner, timeoutHours, provider, runState, pc, chunks,
          splitCalled, callState, responses, processedChunks, callLog, merged,
          keywordList, timersPhase, rulesOut, normOut, keysOut, backlinksDir, blCalls,
          blProcs, outDir, clean, cleanLog, outLog, inputDir, runs, cronOn, tree, toolResult>>

\* ------------------------------------------------------------------ bounds
MaxLen == 7          \* longest text splitMarkdown is applied to
MaxChunkSize == 2    \* largest chunkSize
MaxTimeoutHours == 2 \* largest timeout, in hours
MaxTime == 3         \* the clock stops advancing after this many hours
MaxParas == 3        \* most paragraphs of a document given to the pipeline
MaxSpans == 3        \* most pieces (spans, words) of a text given to applyRules
MaxCalls == 2        \* most calls of createBacklinks

\* ms per hour: timeoutHours * 3600 * 1000
HourMs == 3600000

\* ------------------------------------------------------------------ texts
Letters == {"a"}
Whitespace == {" ", "\n"}
Alphabet == Letters \cup Whitespace

TextsUpTo(n) == UNION {[1..k -> Alphabet] : k \in 0..n}

IsWs(c) == c \in Whitespace

\* String.prototype.trim() leaves nothing
IsBlank(t) == \A i \in 1..Len(t) : IsWs(t[i])

Sub(t, i, j) == IF j < i THEN <<>> ELSE SubSeq(t, i, j)

RECURSIVE Concat(_)
Concat(ts) == IF ts = <<>> THEN <<>> ELSE Head(ts) \o Concat(Tail(ts))

\* index of the last character of the whitespace run that starts at i (i-1 when
\* t[i] is not whitespace)
RECURSIVE WsRunEnd(_, _)
WsRunEnd(t, i) ==
    IF i > Len(t) \/ ~IsWs(t[i]) THEN i - 1 ELSE WsRunEnd(t, i + 1)

\* /(\n\s*\n+)/ matched at position i: the index of the match's last character,
\* 0 when there is no match at i.  \s* is greedy and backtracks to the last
\* newline of the whitespace run, which \n+ then takes.
SepEnd(t, i) ==
    IF i > Len(t) \/ t[i] # "\n" THEN 0
    ELSE LET e == WsRunEnd(t, i + 1)
             nl == {j \in (i + 1)..e : t[j] = "\n"}
         IN IF nl = {} THEN 0 ELSE CHOOSE j \in nl : \A k \in nl : k <= j

\* leftmost match at or after position from, 0 when there is none
NextSep(t, from) ==
    LET starts == {i \in from..Len(t) : SepEnd(t, i) > 0}
    IN IF starts = {} THEN 0 ELSE CHOOSE i \in starts : \A k \in starts : i <= k

\* content.split(/(\n\s*\n+)/): paragraphs at the odd (1-based) indices, the
\* captured separators at the even ones
RECURSIVE SplitFrom(_, _)
SplitFrom(t, from) ==
    LET i == NextSep(t, from)
    IN IF i = 0 THEN <<Sub(t, from, Len(t))>>
       ELSE <<Sub(t, from, i - 1), Sub(t, i, SepEnd(t, i))>>
                \o SplitFrom(t, SepEnd(t, i) + 1)

SplitParagraphs(t) == SplitFrom(t, 1)

\* para.split(/\s+/).length: one more than the number of whitespace runs
WordCount(para) ==
    1 + Cardinality({i \in 1..Len(para) :
                        IsWs(para[i]) /\ (i = 1 \/ ~IsWs(para[i - 1]))})

\* ---------------------------------------------------------- splitMarkdown
\* ShouldClose with a fault: compares the running count alone
ShouldCloseLate(currentCount, paraWordCount, size) ==
    currentCount > size /\ currentCount > 0

ShouldClose(currentCount, paraWordCount, size) ==
    currentCount + paraWordCount > size /\ currentCount > 0

\* FinalFlush with a fault: the last open chunk is forgotten
FinalFlushMissing(chunkList, currentChunk) == chunkList

FinalFlush(chunkList, currentChunk) ==
    IF Len(currentChunk) > 0 THEN Append(chunkList, Concat(currentChunk)) ELSE chunkList

\* the for loop of splitMarkdown from index i (1-based, paragraphs at odd i)
RECURSIVE SplitLoop(_, _, _, _, _, _)
SplitLoop(paragraphs, i, size, chunkList, currentChunk, currentCount) ==
    IF i > Len(paragraphs) THEN FinalFlush(chunkList, currentChunk)
    ELSE LET para == paragraphs[i]
             sep == IF i + 1 <= Len(paragraphs) THEN paragraphs[i + 1] ELSE <<>>
             n == WordCount(para)
             close == ShouldClose(currentCount, n, size)
         IN IF IsBlank(para)
            THEN SplitLoop(paragraphs, i + 2, size, chunkList, currentChunk, currentCount)
            ELSE SplitLoop(paragraphs, i + 2, size,
                           IF close THEN Append(chunkList, Concat(currentChunk)) ELSE chunkList,
                           Append(IF close THEN <<>> ELSE currentChunk, para \o sep),
                           (IF close THEN 0 ELSE currentCount) + n)

splitMarkdown(t, size) == SplitLoop(SplitParagraphs(t), 1, size, <<>>, <<>>, 0)

\* ------------------------------------------------------------- SpecSplit
\* ------------------------------------------------------ markup and rules
Upper == {"A", "B", "C", "D", "E", "F", "G", "H", "I", "J", "K", "L", "M",
          "N", "O", "P", "Q", "R", "S", "T", "U", "V", "W", "X", "Y", "Z"}
Lower == {"a", "b", "c", "d", "e", "f", "g", "h", "i", "j", "k", "l", "m",
          "n", "o", "p", "q", "r", "s", "t", "u", "v", "w", "x", "y", "z"}
Digits == {"0", "1", "2", "3", "4", "5", "6", "7", "8", "9"}

IsBracket(c) == c \in {"[", "]"}

\* ------------------------------------------------------- letter case
UpperSeq == <<"A", "B", "C", "D", "E", "F", "G", "H", "I", "J", "K", "L", "M",
              "N", "O", "P", "Q", "R", "S", "T", "U", "V", "W", "X", "Y", "Z">>
LowerSeq == <<"a", "b", "c", "d", "e", "f", "g", "h", "i", "j", "k", "l", "m",
              "n", "o", "p", "q", "r", "s", "t", "u", "v", "w", "x", "y", "z">>

\* String.prototype.toLowerCase()
ToLowerChar(c) ==
    IF c \in Upper THEN LowerSeq[CHOOSE i \in 1..Len(UpperSeq) : UpperSeq[i] = c] ELSE c

ToLowerCase(t) == [i \in 1..Len(t) |-> ToLowerChar(t[i])]

\* Array.prototype.join(sep)
RECURSIVE JoinWith(_, _)
JoinWith(ts, sep) ==
    IF ts = <<>> THEN <<>>
    ELSE IF Len(ts) = 1 THEN ts[1]
    ELSE Head(ts) \o sep \o JoinWith(Tail(ts), sep)

\* processedChunks.join('\n\n')
Join(ts) == JoinWith(ts, <<"\n", "\n">>)

\* index of the last character of the run of non-bracket characters starting at i
RECURSIVE InnerEnd(_, _)
InnerEnd(t, i) ==
    IF i > Len(t) \/ IsBracket(t[i]) THEN i - 1 ELSE InnerEnd(t, i + 1)

\* /\[\[([^\[\]]+)\]\]/ matched at position i: the index of the match's last
\* character, 0 when there is no match at i
MarkupEnd(t, i) ==
    IF i + 1 > Len(t) \/ t[i] # "[" \/ t[i + 1] # "[" THEN 0
    ELSE LET e == InnerEnd(t, i + 2)
         IN IF e >= i + 2 /\ e + 2 <= Len(t) /\ t[e + 1] = "]" /\ t[e + 2] = "]"
            THEN e + 2 ELSE 0

\* the captured group of the match at i
MarkupInner(t, i) == Sub(t, i + 2, MarkupEnd(t, i) - 2)

EndsWith(t, suffix) ==
    Len(t) >= Len(suffix) /\ Sub(t, Len(t) - Len(suffix) + 1, Len(t)) = suffix

StartsWith(t, prefix) == Len(t) >= Len(prefix) /\ Sub(t, 1, Len(prefix)) = prefix

\* normalizeKeyword: the 'es' test comes before the 'ies' test
normalizeKeyword(keyword) ==
    IF EndsWith(keyword, <<"s">>) /\ Len(keyword) > 1
    THEN IF EndsWith(keyword, <<"e", "s">>) THEN Sub(keyword, 1, Len(keyword) - 2)
         ELSE IF EndsWith(keyword, <<"i", "e", "s">>)
              THEN Sub(keyword, 1, Len(keyword) - 3) \o <<"y">>
              ELSE Sub(keyword, 1, Len(keyword) - 1)
    ELSE keyword

\* [A-Z][a-z]+
IsCapWord(w) ==
    Len(w) >= 2 /\ w[1] \in Upper /\ \A i \in 2..Len(w) : w[i] \in Lower

\* [A-Z][a-z]+(?: [A-Z][a-z]+)*
RECURSIVE IsCapPhrase(_)
IsCapPhrase(t) ==
    LET sp == {i \in 1..Len(t) : t[i] = " "}
    IN IF sp = {} THEN IsCapWord(t)
       ELSE LET i == CHOOSE x \in sp : \A y \in sp : x <= y
            IN IsCapWord(Sub(t, 1, i - 1)) /\ IsCapPhrase(Sub(t, i + 1, Len(t)))

\* [\d]{4}s?
IsYearLike(t) ==
    /\ Len(t) \in {4, 5}
    /\ \A i \in 1..4 : t[i] \in Digits
    /\ Len(t) = 5 => t[5] = "s"

\* (?:@|https?:\/\/)[^\[\]]+
IsReference(t) ==
    \/ StartsWith(t, <<"@">>) /\ Len(t) > 1
    \/ StartsWith(t, <<"h", "t", "t", "p", ":", "/", "/">>) /\ Len(t) > 7
    \/ StartsWith(t, <<"h", "t", "t", "p", "s", ":", "/", "/">>) /\ Len(t) > 8

SpanMatches(rule, inner) ==
    IF rule = "names" THEN IsCapPhrase(inner) \/ IsYearLike(inner)
    ELSE IsReference(inner)

\* processed.replace(/\[\[(?:...)\]\]/g, ''): every span the rule matches is
\* replaced by the empty string
RECURSIVE RemoveSpans(_, _, _)
RemoveSpans(rule, t, i) ==
    IF i > Len(t) THEN <<>>
    ELSE IF MarkupEnd(t, i) > 0 /\ SpanMatches(rule, MarkupInner(t, i))
         THEN RemoveSpans(rule, t, MarkupEnd(t, i) + 1)
         ELSE <<t[i]>> \o RemoveSpans(rule, t, i + 1)

\* RemoveDuplicates with a fault: a repeated span is replaced by the empty
\* string, as rules 2 and 5 do
RECURSIVE RemoveDuplicatesDropsText(_, _, _)
RemoveDuplicatesDropsText(t, i, seen) ==
    IF i > Len(t) THEN <<>>
    ELSE IF MarkupEnd(t, i) > 0
         THEN LET keyword == MarkupInner(t, i)
                  normalized == normalizeKeyword(keyword)
              IN (IF normalized \in seen THEN <<>> ELSE Sub(t, i, MarkupEnd(t, i)))
                     \o RemoveDuplicatesDropsText(t, MarkupEnd(t, i) + 1,
                                                  seen \cup {normalized})
         ELSE <<t[i]>> \o RemoveDuplicatesDropsText(t, i + 1, seen)

\* Rule 4: a span whose normalized keyword was seen loses its brackets
RECURSIVE RemoveDuplicates(_, _, _)
RemoveDuplicates(t, i, seen) ==
    IF i > Len(t) THEN <<>>
    ELSE IF MarkupEnd(t, i) > 0
         THEN LET keyword == MarkupInner(t, i)
                  normalized == normalizeKeyword(keyword)
              IN (IF normalized \in seen THEN keyword ELSE Sub(t, i, MarkupEnd(t, i)))
                     \o RemoveDuplicates(t, MarkupEnd(t, i) + 1, seen \cup {normalized})
         ELSE <<t[i]>> \o RemoveDuplicates(t, i + 1, seen)

\* PROCESSING_RULES: every toggle is true.  The text after rule 2, after rule 4
\* and after rule 5
RuleStages(t) ==
    LET r2 == RemoveSpans("names", t, 1)
        r4 == RemoveDuplicates(r2, 1, {})
    IN [names |-> r2, dups |-> r4, refs |-> RemoveSpans("refs", r4, 1)]

applyRules(t) == RuleStages(t).refs

\* String.prototype.trim()
RECURSIVE TrimLeft(_)
TrimLeft(t) == IF t # <<>> /\ IsWs(Head(t)) THEN TrimLeft(Tail(t)) ELSE t

RECURSIVE TrimRight(_)
TrimRight(t) ==
    IF t # <<>> /\ IsWs(t[Len(t)]) THEN TrimRight(Sub(t, 1, Len(t) - 1)) ELSE t

Trim(t) == TrimRight(TrimLeft(t))

\* extractAndSaveKeywords: the keys of keywordMap, in insertion order
RECURSIVE KeywordKeys(_, _, _)
KeywordKeys(t, i, keys) ==
    IF i > Len(t) THEN keys
    ELSE IF MarkupEnd(t, i) > 0
         THEN LET keyword == Trim(MarkupInner(t, i))
                  normalized == normalizeKeyword(keyword)
                  known == \E j \in 1..Len(keys) : keys[j] = normalized
              IN KeywordKeys(t, MarkupEnd(t, i) + 1,
                             IF keyword = <<>> \/ known THEN keys
                             ELSE Append(keys, normalized))
         ELSE KeywordKeys(t, i + 1, keys)

\* what a backend that follows its prompt returns: every whitespace-delimited
\* token of the chunk wrapped in [[ ]]
RECURSIVE WrapTokens(_, _)
WrapTokens(t, i) ==
    IF i > Len(t) THEN <<>>
    ELSE (IF ~IsWs(t[i]) /\ (i = 1 \/ IsWs(t[i - 1])) THEN <<"[", "[">> ELSE <<>>)
         \o <<t[i]>>
         \o (IF ~IsWs(t[i]) /\ (i = Len(t) \/ IsWs(t[i + 1])) THEN <<"]", "]">> ELSE <<>>)
         \o WrapTokens(t, i + 1)

\* ------------------------------------------------------- timers and clock
\* a timer may run its callback when it is due and no pending timer is ahead of
\* it: earlier deadline first, and among equal deadlines the one set first
TimerDue(q, i, t) ==
    /\ q[i].deadline <= t
    /\ \A j \in 1..Len(q) :
          ~(q[j].deadline < q[i].deadline \/ (q[j].deadline = q[i].deadline /\ j < i))

SetTimer(q, id, k, delay, t) == Append(q, [id |-> id, k |-> k, deadline |-> t + delay])

\* clearTimeout: a no-op on a timer that already ran or was cleared
ClearTimer(q, id, k) == SelectSeq(q, LAMBDA tm : ~(tm.id = id /\ tm.k = k))

\* the clock advances by an hour when no timer is due
Tick ==
    /\ now < MaxTime * HourMs
    /\ \A i \in 1..Len(timerQ) : timerQ[i].deadline > now
    /\ now' = now + HourMs

\* --------------------------------------------------- scheduleWithTimeout
GuardIds == {"g", "sched", "doc"}

NoGuard ==
    [outcome |-> <<"unused">>, timer |-> "unset", onTimeoutCalls |-> 0,
     timeoutMs |-> 0, hasOnTimeout |-> FALSE]

IsSettled(g) == g.outcome[1] \in {"value", "error", "timeout"}

\* resolve / reject of the guard's promise: only the first call has an effect
Settle(g, result) == IF g.outcome[1] = "pending" THEN result ELSE g.outcome

\* new Promise(...) and setTimeout(..., timeoutMs)
GuardArmed(timeoutMs, hasOnTimeout) ==
    [outcome |-> <<"pending">>, timer |-> "pending", onTimeoutCalls |-> 0,
     timeoutMs |-> timeoutMs, hasOnTimeout |-> hasOnTimeout]

\* GuardOpSettled with a fault: the .finally(clearTimeout) is missing
GuardOpSettledNoClear(g, result) == [g EXCEPT !.outcome = Settle(g, result)]

\* fn()'s promise settled: .then(resolve).catch(reject).finally(clearTimeout)
GuardOpSettled(g, result) ==
    [g EXCEPT !.outcome = Settle(g, result),
              !.timer = IF @ = "pending" THEN "cleared" ELSE @]

\* fn() threw before returning a promise: the executor's exception rejects the
\* promise, and no handler that clears the timer was attached
GuardOpThrew(g, err) == [g EXCEPT !.outcome = Settle(g, <<"error", err>>)]

\* GuardTimerFired with a fault: the callback resolves instead of rejecting
GuardTimerFiredResolves(g) ==
    [g EXCEPT !.timer = "fired",
              !.onTimeoutCalls = IF g.hasOnTimeout THEN @ + 1 ELSE @,
              !.outcome = Settle(g, <<"value", <<>>>>)]

\* the timer's callback: onTimeout(), then reject with the timeout error
GuardTimerFired(g) ==
    [g EXCEPT !.timer = "fired",
              !.onTimeoutCalls = IF g.hasOnTimeout THEN @ + 1 ELSE @,
              !.outcome = Settle(g, <<"timeout", g.timeoutMs>>)]

\* new Error(`Operation timed out after ${timeoutMs}ms`): an object of the
\* class Error with that message
TimeoutError(timeoutMs) ==
    [class |-> "Error", text |-> "Operation timed out after", n |-> timeoutMs]

\* what a wrapped operation of this program rejects with: an object of the
\* class Error made by new Error(message), or an error of fs
OperationError(err) == [class |-> "Error", text |-> err, n |-> 0]

\* the error the caller of a rejected guard catches
Caught(g) ==
    IF g.outcome[1] = "timeout" THEN TimeoutError(g.outcome[2])
    ELSE OperationError(g.outcome[2])

\* the timer queue after the guard's operation settled
TimersAfterSettle(q, gid, g) == IF g.timer = "cleared" THEN ClearTimer(q, gid, 0) ELSE q

\* the timing and guard variables of a behaviour that has not started
TimeIdle ==
    /\ now = 0
    /\ timerQ = <<>>
    /\ fireLog = <<>>
    /\ guards = [id \in GuardIds |-> NoGuard]

GuardIdle ==
    /\ opState = <<"notCalled">>
    /\ raceWinner = "none"

PipeIdle ==
    /\ timeoutHours = 1
    /\ provider = "deepseek"
    /\ runState = "idle"
    /\ pc = "idle"
    /\ chunks = <<>>
    /\ splitCalled = FALSE
    /\ callState = <<>>
    /\ responses = <<>>
    /\ processedChunks = <<>>
    /\ callLog = <<>>
    /\ merged = <<"none">>
    /\ keywordList = <<"absent">>
    /\ timersPhase = FALSE

\* the rule engine and the indexer before any call; no backlink file exists
IdxIdle ==
    /\ rulesOut = <<"none">>
    /\ normOut = <<"none">>
    /\ keysOut = <<"none">>
    /\ backlinksDir = <<>>
    /\ blCalls = <<>>
    /\ blProcs = <<>>

\* no cleanDuplicateFiles call yet, an empty output directory
NoClean ==
    [pc |-> "idle", groups |-> <<>>, gi |-> 0, sorted |-> <<>>, i |-> 0,
     before |-> <<>>, deleted |-> <<>>, failed |-> <<>>, vanished |-> {}]

DirIdle ==
    /\ outDir = <<>>
    /\ clean = NoClean
    /\ cleanLog = <<>>
    /\ outLog = <<>>

SchedIdle ==
    /\ inputDir = <<>>
    /\ runs = <<>>
    /\ cronOn = FALSE

\* the delete_duplicates tool has not been called, no file in sight
ToolIdle ==
    /\ tree = {}
    /\ toolResult = <<"none">>

InitSplit ==
    /\ mode = "split"
    /\ content \in TextsUpTo(MaxLen)
    /\ chunkSize \in 1..MaxChunkSize
    /\ splitResult = <<"none">>
    /\ TimeIdle
    /\ GuardIdle
    /\ PipeIdle
    /\ IdxIdle
    /\ DirIdle
    /\ SchedIdle
    /\ ToolIdle

CallSplitMarkdown ==
    /\ mode = "split"
    /\ splitResult = <<"none">>
    /\ splitResult' = <<"chunks", splitMarkdown(content, chunkSize)>>
    /\ UNCHANGED <<idxVars, dirVars, schedVars, toolVars, mode, content, chunkSize, timeVars, guardVars, pipeVars>>

NextSplit == CallSplitMarkdown

SpecSplit == InitSplit /\ [][NextSplit]_vars

\* ------------------------------------------------------------- SpecGuard
\* scheduleWithTimeout(fn, hours * 3600 * 1000, onTimeout?) around an operation
\* that settles at any time, never settles, or throws before returning a promise
InitGuard ==
    /\ mode = "guard"
    /\ content = <<>>
    /\ chunkSize = 1
    /\ splitResult = <<"none">>
    /\ TimeIdle
    /\ GuardIdle
    /\ PipeIdle
    /\ IdxIdle
    /\ DirIdle
    /\ SchedIdle
    /\ ToolIdle

GuardCall(hours, hasOnTimeout, throws) ==
    /\ mode = "guard"
    /\ opState = <<"notCalled">>
    /\ LET armed == GuardArmed(hours * HourMs, hasOnTimeout)
       IN guards' = [guards EXCEPT !["g"] =
                        IF throws THEN GuardOpThrew(armed, "op") ELSE armed]
    /\ timerQ' = SetTimer(timerQ, "g", 0, hours * HourMs, now)
    /\ opState' = IF throws THEN <<"threw">> ELSE <<"pending">>
    /\ raceWinner' = IF throws THEN "threw" ELSE "none"
    /\ UNCHANGED <<idxVars, dirVars, schedVars, toolVars, mode, splitVars, now, fireLog, pipeVars>>

\* the operation's promise resolves or rejects; the reactions run as microtasks,
\* before any timer callback can
GuardOpSettles(result) ==
    /\ mode = "guard"
    /\ opState = <<"pending">>
    /\ opState' = result
    /\ LET g == GuardOpSettled(guards["g"], result)
       IN /\ guards' = [guards EXCEPT !["g"] = g]
          /\ timerQ' = TimersAfterSettle(timerQ, "g", g)
    /\ raceWinner' = IF raceWinner = "none" THEN "op" ELSE raceWinner
    /\ UNCHANGED <<idxVars, dirVars, schedVars, toolVars, mode, splitVars, now, fireLog, pipeVars>>

GuardTimerFires ==
    /\ mode = "guard"
    /\ \E i \in 1..Len(timerQ) :
          /\ timerQ[i].id = "g"
          /\ TimerDue(timerQ, i, now)
    /\ guards' = [guards EXCEPT !["g"] = GuardTimerFired(@)]
    /\ timerQ' = ClearTimer(timerQ, "g", 0)
    /\ fireLog' = Append(fireLog, <<"g", 0>>)
    /\ raceWinner' = IF raceWinner = "none" THEN "deadline" ELSE raceWinner
    /\ UNCHANGED <<idxVars, dirVars, schedVars, toolVars, mode, splitVars, now, opState, pipeVars>>

GuardTick ==
    /\ mode = "guard"
    /\ Tick
    /\ UNCHANGED <<idxVars, dirVars, schedVars, toolVars, mode, splitVars, timerQ, fireLog, guards, guardVars, pipeVars>>

NextGuard ==
    \/ \E hours \in 1..MaxTimeoutHours, hasOnTimeout \in BOOLEAN, throws \in BOOLEAN :
          GuardCall(hours, hasOnTimeout, throws)
    \/ \E result \in {<<"value", "v">>, <<"error", "op">>} : GuardOpSettles(result)
    \/ GuardTimerFires
    \/ GuardTick

SpecGuard == InitGuard /\ [][NextGuard]_vars

\* ---------------------------------------------- the duplicate file reconciler
MaxFiles == 3

FileNote == <<"n", "o", "t", "e", ".", "m", "d">>
FileNoteCap == <<"N", "o", "t", "e", ".", "m", "d">>
FileNoteCopy == <<"N", "O", "T", "E", " ", "(", "1", ")", ".", "m", "d">>
FileNoteMark == <<"N", "O", "T", "E", " ", "(", ")", ".", "m", "d">>
FileNoteTxt == <<"n", "o", "t", "e", ".", "t", "x", "t">>

\* the names a file of the directory can have
FileNames == {FileNote, FileNoteCap, FileNoteCopy, FileNoteMark, FileNoteTxt}

\* the values of stat.birthtime
BirthTimes == {1, 2, 3}

\* the directories of up to n files: each file has a name of its own and a
\* birthtime, the order is the order readdir lists them in.  A file that is not
\* a .md file is dropped by the filter before its place or birthtime is looked
\* at: it is listed last, with the first birthtime.
DirsOf(n) ==
    UNION {{d \in [1..k -> [name : FileNames, birth : BirthTimes]] :
               /\ \A i, j \in 1..k : d[i].name = d[j].name => i = j
               /\ \A i \in 1..k :
                      d[i].name = FileNoteTxt =>
                          i = k /\ \A b \in BirthTimes : d[i].birth <= b} : k \in 0..n}

NamesOf(dir) == [i \in 1..Len(dir) |-> dir[i].name]

IsPresent(dir, file) == \E i \in 1..Len(dir) : dir[i].name = file

BirthOf(dir, file) == dir[CHOOSE i \in 1..Len(dir) : dir[i].name = file].birth

\* fs.unlink(file), also by another process
RemoveFile(dir, file) ==
    LET Keep(e) == e.name # file IN SelectSeq(dir, Keep)

\* f.endsWith('.md')
IsMd(file) == EndsWith(file, <<".", "m", "d">>)

MdFiles(files) == SelectSeq(files, IsMd)

IsAlnum(c) == c \in Upper \cup Lower \cup Digits

\* normalizeFileName with a fault: the letter case is kept
normalizeFileNameKeepsCase(filename) ==
    LET base == IF IsMd(filename) THEN Sub(filename, 1, Len(filename) - 3) ELSE filename
    IN SelectSeq(base, IsAlnum)

\* filename.replace(/\.md$/, '').replace(/[^a-zA-Z0-9]/g, '').toLowerCase()
normalizeFileName(filename) ==
    LET base == IF IsMd(filename) THEN Sub(filename, 1, Len(filename) - 3) ELSE filename
    IN ToLowerCase(SelectSeq(base, IsAlnum))

\* the keys of the groups Map, in insertion order
RECURSIVE GroupKeys(_, _, _)
GroupKeys(files, i, keys) ==
    IF i > Len(files) THEN keys
    ELSE LET key == normalizeFileName(files[i])
         IN IF \E k \in 1..Len(keys) : keys[k] = key
            THEN GroupKeys(files, i + 1, keys)
            ELSE GroupKeys(files, i + 1, Append(keys, key))

\* the groups Map as the sequence of its values: the files of a key in the
\* order they were pushed
GroupsOf(files) ==
    LET keys == GroupKeys(files, 1, <<>>)
    IN [k \in 1..Len(keys) |->
           LET InGroup(f) == normalizeFileName(f) = keys[k] IN SelectSeq(files, InGroup)]

\* Array.prototype.sort with a.birthtime - b.birthtime is stable: a file goes
\* behind the files that are not younger than it
RECURSIVE InsertByAge(_, _, _)
InsertByAge(dir, sorted, file) ==
    IF sorted = <<>> THEN <<file>>
    ELSE IF BirthOf(dir, Head(sorted)) <= BirthOf(dir, file)
         THEN <<Head(sorted)>> \o InsertByAge(dir, Tail(sorted), file)
         ELSE <<file>> \o sorted

RECURSIVE SortByAge(_, _, _)
SortByAge(dir, files, n) ==
    IF n = 0 THEN <<>> ELSE InsertByAge(dir, SortByAge(dir, files, n - 1), files[n])

\* sortFilesByAge with a fault: the order of the sort is kept back to front
sortFilesByAgeNewestFirst(dir, files) ==
    LET sorted == SortByAge(dir, files, Len(files))
    IN [i \in 1..Len(sorted) |-> sorted[Len(sorted) + 1 - i]]

\* sortFilesByAge, once every stat has answered
sortFilesByAge(dir, files) == SortByAge(dir, files, Len(files))

\* the unlink loop with a fault: i goes up by two
ToDeleteEveryOther(sorted) ==
    LET Second(k) == sorted[2 * k] IN [k \in 1..(Len(sorted) \div 2) |-> Second(k)]

\* the unlink loop with a fault: i starts at 0
ToDeleteFromFirst(sorted) == sorted

\* for (let i = 1; i < sorted.length; i++): the files the loop unlinks
ToDelete(sorted) == Tail(sorted)

\* the first group from index g on that has more than one file; one past the
\* last group when there is none
RECURSIVE NextGroup(_, _)
NextGroup(groups, g) ==
    IF g > Len(groups) \/ Len(groups[g]) > 1 THEN g ELSE NextGroup(groups, g + 1)

\* what is kept of a call that ended when the next one starts
CleanEnded(c) == [failed |-> c.failed # <<>>, deleted |-> c.deleted # <<>>]

\* the loop reaches group g: await sortFilesByAge when there is one, the end of
\* the call when there is none
AtGroup(c, g) ==
    IF g > Len(c.groups) THEN [c EXCEPT !.pc = "done", !.gi = g]
    ELSE [c EXCEPT !.pc = "stat", !.gi = g]

Advance(c, g) == AtGroup(c, NextGroup(c.groups, g))

\* CleanCatches with a fault: the catch logs the error and throws it on
CleanRethrows(c, file) == [c EXCEPT !.pc = "threw", !.failed = <<file>>]

\* the catch of cleanDuplicateFiles: the error is logged and the call ends
CleanCatches(c, file) == [c EXCEPT !.pc = "done", !.failed = <<file>>]

\* the files a call unlinks when nothing stops it, in the order it unlinks them
RECURSIVE DeletionsFrom(_, _, _)
DeletionsFrom(dir, groups, g) ==
    IF g > Len(groups) THEN <<>>
    ELSE (IF Len(groups[g]) > 1 THEN ToDelete(sortFilesByAge(dir, groups[g])) ELSE <<>>)
             \o DeletionsFrom(dir, groups, g + 1)

DeletionOrder(dir) == DeletionsFrom(dir, GroupsOf(MdFiles(NamesOf(dir))), 1)

\* the directory after the first n of the files are unlinked
RECURSIVE RemoveFiles(_, _, _)
RemoveFiles(dir, files, n) ==
    IF n = 0 THEN dir ELSE RemoveFile(RemoveFiles(dir, files, n - 1), files[n])

InitClean ==
    /\ mode = "clean"
    /\ content = <<>>
    /\ chunkSize = 1
    /\ splitResult = <<"none">>
    /\ TimeIdle
    /\ GuardIdle
    /\ PipeIdle
    /\ IdxIdle
    /\ SchedIdle
    /\ ToolIdle
    /\ outDir \in DirsOf(MaxFiles)
    /\ clean = NoClean
    /\ cleanLog = <<>>
    /\ outLog = <<>>

\* cleanDuplicateFiles(dirPath) up to its first await that matters: readdir
\* answers, the files are grouped, the loop runs to the first group of several
\* files and asks for their stats
CleanStart(ok) ==
    /\ mode = "clean"
    /\ \/ clean.pc = "idle" /\ cleanLog' = cleanLog
       \/ /\ clean.pc = "done"
          /\ Len(cleanLog) + 1 < MaxCalls
          /\ cleanLog' = Append(cleanLog, CleanEnded(clean))
    /\ LET c == [NoClean EXCEPT !.before = outDir,
                                !.groups = GroupsOf(MdFiles(NamesOf(outDir)))]
       IN clean' = IF ok THEN Advance(c, 1) ELSE CleanCatches(c, <<>>)
    /\ UNCHANGED <<mode, splitVars, timeVars, guardVars, pipeVars, idxVars, schedVars, toolVars,
                   outDir, outLog>>

\* the stats of the group answer: Promise.all rejects when a file is gone,
\* otherwise the group is sorted and the unlink loop starts
CleanStat ==
    /\ mode = "clean"
    /\ clean.pc = "stat"
    /\ LET group == clean.groups[clean.gi]
           gone == {j \in 1..Len(group) : ~IsPresent(outDir, group[j])}
       IN clean' =
             IF gone # {}
             THEN CleanCatches(clean, group[CHOOSE j \in gone : \A k \in gone : j <= k])
             ELSE LET sorted == sortFilesByAge(outDir, group)
                  IN IF ToDelete(sorted) = <<>>
                     THEN Advance(clean, clean.gi + 1)
                     ELSE [clean EXCEPT !.pc = "unlink", !.sorted = ToDelete(sorted),
                                        !.i = 1]
    /\ UNCHANGED <<mode, splitVars, timeVars, guardVars, pipeVars, idxVars, schedVars, toolVars,
                   outDir, cleanLog, outLog>>

\* await fs.unlink of the next file of the group: it is deleted, or the unlink
\* fails (the file is gone, or the system refuses) and the catch ends the call
CleanUnlink(ok) ==
    /\ mode = "clean"
    /\ clean.pc = "unlink"
    /\ LET file == clean.sorted[clean.i]
       IN IF ok /\ IsPresent(outDir, file)
          THEN LET c == [clean EXCEPT !.deleted = Append(@, file), !.i = @ + 1]
               IN /\ outDir' = RemoveFile(outDir, file)
                  /\ clean' = IF c.i <= Len(c.sorted) THEN c ELSE Advance(c, c.gi + 1)
          ELSE /\ outDir' = outDir
               /\ clean' = CleanCatches(clean, file)
    /\ UNCHANGED <<mode, splitVars, timeVars, guardVars, pipeVars, idxVars, schedVars, toolVars,
                   cleanLog, outLog>>

\* another process deletes a file of the directory while the call is under way
OtherProcessDeletes(file) ==
    /\ mode = "clean"
    /\ clean.pc \in {"stat", "unlink"}
    /\ clean.vanished = {}
    /\ IsPresent(outDir, file)
    /\ outDir' = RemoveFile(outDir, file)
    /\ clean' = [clean EXCEPT !.vanished = {file}]
    /\ UNCHANGED <<mode, splitVars, timeVars, guardVars, pipeVars, idxVars, schedVars, toolVars,
                   cleanLog, outLog>>

NextClean ==
    \/ \E ok \in BOOLEAN : CleanStart(ok)
    \/ CleanStat
    \/ \E ok \in BOOLEAN : CleanUnlink(ok)
    \/ \E file \in FileNames : OtherProcessDeletes(file)

SpecClean == InitClean /\ [][NextClean]_vars

\* ---------------------------------------------------------- SpecPipeline
\* One run of TaskScheduler.runProcessing over one document: the scheduler's
\* guard around processMarkdown, processMarkdown's guard around the pipeline
\* body, and the body's provider calls.  "deepseek" sends a request guarded by
\* an abort timer; "openai" stands for the providers that return the content
\* at once.
Providers == {"deepseek", "openai"}

RECURSIVE ParaDoc(_)
ParaDoc(n) == IF n <= 1 THEN <<"a">> ELSE <<"a", "\n", "\n">> \o ParaDoc(n - 1)

\* documents of 1..MaxParas paragraphs, a document with a leading blank
\* paragraph, a document of whitespace alone and a document of one word in
\* two letter cases
PipelineDocs ==
    {ParaDoc(n) : n \in 1..MaxParas}
        \cup {<<"\n", "\n", "a">>, <<"\n", "\n", "\n">>, <<"a", " ", "A">>}

\* keyword_list.txt of the output directory before the run: none, or the list
\* an earlier run wrote
KeywordListsBefore == {<<"absent">>, <<"file", <<"o", "l", "d">>>>}

\* NeedsSplit with a fault: the bound is not doubled
NeedsSplitAtBound(text, size) == Len(text) > size

\* content.length > chunkSize * 2
NeedsSplit(text, size) == Len(text) > size * 2

\* StartableAfter with a fault: every call is started at loop entry
StartableAllAtOnce(k, n) == IF k = 0 THEN 1..n ELSE {}

\* the calls the for...await loop starts once call k has settled (k = 0: at
\* loop entry)
StartableAfter(k, n) == IF k < n THEN {k + 1} ELSE {}

\* ResultOnFailure with a fault: a failed chunk is dropped from the output
ResultOnFailureDropped(chunk) == <<>>

\* catch (err) { processedChunks.push(chunk) }
ResultOnFailure(chunk) == chunk

\* what provider.processMarkdown(chunk) can resolve with: the request's answer
\* (the chunk with its tokens marked up, or the chunk as it was), or, from the
\* providers without a request, the content itself
BackendOutputs(prov, chunk) ==
    IF prov = "deepseek" THEN {WrapTokens(chunk, 1), chunk} ELSE {chunk}

\* every text a backend can answer in this run
TextsOfPipeline ==
    UNION {BackendOutputs(provider, chunks[k]) : k \in 1..Len(chunks)}

IsCallSettled(st) == st \in {"ok", "error", "aborted"}

\* DeepSeekProvider.processMarkdown: setTimeout(() => controller.abort(), ...)
RECURSIVE SetAbortTimers(_, _, _, _)
SetAbortTimers(q, ks, delay, t) ==
    IF ks = {} THEN q
    ELSE LET k == CHOOSE x \in ks : \A y \in ks : x <= y
         IN SetAbortTimers(SetTimer(q, "abort", k, delay, t), ks \ {k}, delay, t)

RECURSIVE StartLog(_, _)
StartLog(log, ks) ==
    IF ks = {} THEN log
    ELSE LET k == CHOOSE x \in ks : \A y \in ks : x <= y
         IN StartLog(Append(log, <<"start", k>>), ks \ {k})

\* the log of n calls that each resolve at once
RECURSIVE ImmediateLog(_, _)
ImmediateLog(k, n) ==
    IF k > n THEN <<>> ELSE <<<<"start", k>>, <<"end", k>>>> \o ImmediateLog(k + 1, n)

AnyTimerDue(q, t) == \E i \in 1..Len(q) : q[i].deadline <= t

\* processMarkdown's promise is the operation of the scheduler's guard
Cascade(gs) ==
    IF IsSettled(gs["doc"])
    THEN [gs EXCEPT !["sched"] = GuardOpSettled(@, gs["doc"].outcome)]
    ELSE gs

PruneGuardTimers(q, gs) ==
    SelectSeq(q, LAMBDA tm : tm.id = "abort" \/ gs[tm.id].timer = "pending")

\* runProcessing after its await: the loop ends and "Completed" is logged, or
\* the catch block logs the failure
RunStateOf(gs) ==
    IF gs["sched"].outcome[1] = "value" THEN "completed"
    ELSE IF IsSettled(gs["sched"]) THEN "failed" ELSE "running"

\* the output directory before the run: empty, or two files of one key
PipelineOutDirs ==
    {<<>>, <<[name |-> FileNote, birth |-> 1], [name |-> FileNoteCap, birth |-> 2]>>}

\* a guard of the run has rejected with its timeout: runProcessing's catch has
\* logged it, or processMarkdown's caller has it
TimeoutReported(gs) == \E gid \in {"sched", "doc"} : gs[gid].outcome[1] = "timeout"

\* an entry of outLog: the step, whether it went well, the number of files it
\* deleted, and whether the timeout had been reported when the body took it
BodyDid(step, ok, n) ==
    [step |-> step, ok |-> ok, deleted |-> n, late |-> TimeoutReported(guards)]

\* IndexFailure with a fault: the catch logs the error and does not throw it on
IndexFailureSwallowed(step) == [pc |-> "clean", thrown |-> FALSE]

\* the catch of extractAndSaveKeywords logs the error and throws it on; the
\* body of processMarkdown has no catch around the call
IndexFailure(step) == [pc |-> "threw", thrown |-> TRUE]

InitPipeline ==
    /\ mode = "pipeline"
    /\ content \in PipelineDocs
    /\ chunkSize \in 1..MaxChunkSize
    /\ splitResult = <<"none">>
    /\ TimeIdle
    /\ GuardIdle
    /\ timeoutHours \in 1..MaxTimeoutHours
    /\ provider \in Providers
    /\ runState = "idle"
    /\ pc = "idle"
    /\ chunks = <<>>
    /\ splitCalled = FALSE
    /\ callState = <<>>
    /\ responses = <<>>
    /\ processedChunks = <<>>
    /\ callLog = <<>>
    /\ merged = <<"none">>
    /\ keywordList \in KeywordListsBefore
    /\ timersPhase = FALSE
    /\ IdxIdle
    /\ SchedIdle
    /\ ToolIdle
    /\ outDir \in PipelineOutDirs
    /\ clean = NoClean
    /\ cleanLog = <<>>
    /\ outLog = <<>>

\* runProcessing reaches scheduleWithTimeout(() => processMarkdown(...)): both
\* guards are armed, the body computes its chunks and enters the loop, all
\* before the event loop gets control back
RunProcessing ==
    /\ mode = "pipeline"
    /\ pc = "idle"
    /\ LET delay == timeoutHours * HourMs
           q1 == SetTimer(SetTimer(timerQ, "sched", 0, delay, now), "doc", 0, delay, now)
           split == NeedsSplit(content, chunkSize)
           cks == IF split THEN splitMarkdown(content, chunkSize) ELSE <<content>>
           n == Len(cks)
           first == StartableAfter(0, n)
       IN /\ guards' = [guards EXCEPT !["sched"] = GuardArmed(delay, TRUE),
                                      !["doc"] = GuardArmed(delay, FALSE)]
          /\ chunks' = cks
          /\ splitCalled' = split
          /\ IF provider = "deepseek"
             THEN /\ callState' = [j \in 1..n |-> IF j \in first THEN "inflight" ELSE "idle"]
                  /\ responses' = [j \in 1..n |-> <<"none">>]
                  /\ timerQ' = SetAbortTimers(q1, first, delay, now)
                  /\ callLog' = StartLog(<<>>, first)
                  /\ processedChunks' = <<>>
                  /\ pc' = IF n = 0 THEN "mkdir" ELSE "calls"
                  /\ merged' = IF n = 0 THEN <<"text", <<>>>> ELSE <<"none">>
             ELSE /\ callState' = [j \in 1..n |-> "ok"]
                  /\ timerQ' = q1
                  /\ callLog' = ImmediateLog(1, n)
                  /\ responses' = [j \in 1..n |-> <<"text", cks[j]>>]
                  /\ processedChunks' = cks
                  /\ pc' = "mkdir"
                  /\ merged' = <<"text", Join(processedChunks')>>
    /\ runState' = "running"
    /\ UNCHANGED <<idxVars, dirVars, schedVars, toolVars, mode, splitVars, now, fireLog, guardVars, timeoutHours, provider,
                   keywordList, timersPhase>>

\* the loop after call k settled with the text r: push, then the next call or
\* the merge
LoopContinues(k, status, r, q) ==
    LET n == Len(chunks)
        cs1 == [callState EXCEPT ![k] = status]
        next == {j \in StartableAfter(k, n) : cs1[j] = "idle"}
        cs2 == [j \in 1..n |-> IF j \in next THEN "inflight" ELSE cs1[j]]
        done == \A j \in 1..n : IsCallSettled(cs2[j])
    IN /\ callState' = cs2
       /\ processedChunks' = Append(processedChunks, r)
       /\ callLog' = StartLog(Append(callLog, <<"end", k>>), next)
       /\ timerQ' = SetAbortTimers(q, next, timeoutHours * HourMs, now)
       /\ pc' = IF done THEN "mkdir" ELSE "calls"
       /\ merged' = IF done THEN <<"text", Join(processedChunks')>> ELSE merged

\* the request of call k comes back with a good response
CallResolves(k, text) ==
    /\ mode = "pipeline"
    /\ pc = "calls"
    /\ ~timersPhase
    /\ k \in 1..Len(chunks)
    /\ callState[k] = "inflight"
    /\ text \in BackendOutputs(provider, chunks[k])
    /\ responses' = [responses EXCEPT ![k] = <<"text", text>>]
    /\ LoopContinues(k, "ok", text, ClearTimer(timerQ, "abort", k))
    /\ UNCHANGED <<idxVars, dirVars, schedVars, toolVars, mode, splitVars, now, fireLog, guards, guardVars, timeoutHours,
                   provider, runState, chunks, splitCalled, keywordList, timersPhase>>

\* the request of call k fails: network error, bad status, malformed body
CallRejects(k) ==
    /\ mode = "pipeline"
    /\ pc = "calls"
    /\ ~timersPhase
    /\ k \in 1..Len(chunks)
    /\ callState[k] = "inflight"
    /\ LoopContinues(k, "error", ResultOnFailure(chunks[k]),
                     ClearTimer(timerQ, "abort", k))
    /\ UNCHANGED <<idxVars, dirVars, schedVars, toolVars, responses, mode, splitVars, now, fireLog, guards, guardVars, timeoutHours,
                   provider, runState, chunks, splitCalled, keywordList, timersPhase>>

\* the abort timer of call k fires: the request rejects with AbortError, the
\* provider throws "Request timed out", the loop's catch takes it
AbortTimerFires(k) ==
    /\ mode = "pipeline"
    /\ \E i \in 1..Len(timerQ) :
          /\ timerQ[i].id = "abort" /\ timerQ[i].k = k
          /\ TimerDue(timerQ, i, now)
    /\ callState[k] = "inflight"
    /\ LoopContinues(k, "aborted", ResultOnFailure(chunks[k]),
                     ClearTimer(timerQ, "abort", k))
    /\ fireLog' = Append(fireLog, <<"abort", k>>)
    /\ timersPhase' = AnyTimerDue(timerQ', now)
    /\ UNCHANGED <<idxVars, dirVars, schedVars, toolVars, mode, splitVars, now, guards, guardVars, timeoutHours, provider,
                   runState, chunks, splitCalled, responses, keywordList>>

\* PipelineGuardTimerFires with a fault: the callback also ends the body
PipelineGuardTimerFiresStopsBody(gid) ==
    /\ mode = "pipeline"
    /\ \E i \in 1..Len(timerQ) :
          /\ timerQ[i].id = gid
          /\ TimerDue(timerQ, i, now)
    /\ LET gs == Cascade([guards EXCEPT ![gid] = GuardTimerFired(@)])
       IN /\ guards' = gs
          /\ timerQ' = PruneGuardTimers(ClearTimer(timerQ, gid, 0), gs)
          /\ runState' = RunStateOf(gs)
    /\ fireLog' = Append(fireLog, <<gid, 0>>)
    /\ timersPhase' = AnyTimerDue(timerQ', now)
    /\ pc' = "threw"
    /\ UNCHANGED <<idxVars, dirVars, schedVars, toolVars, mode, splitVars, now, guardVars, timeoutHours,
                   provider, chunks, splitCalled, callState, responses, processedChunks,
                   callLog, merged, keywordList>>

\* the timer of the scheduler's guard or of processMarkdown's guard fires: the
\* callback calls onTimeout and rejects, nothing of the body is touched
PipelineGuardTimerFires(gid) ==
    /\ mode = "pipeline"
    /\ \E i \in 1..Len(timerQ) :
          /\ timerQ[i].id = gid
          /\ TimerDue(timerQ, i, now)
    /\ LET gs == Cascade([guards EXCEPT ![gid] = GuardTimerFired(@)])
       IN /\ guards' = gs
          /\ timerQ' = PruneGuardTimers(ClearTimer(timerQ, gid, 0), gs)
          /\ runState' = RunStateOf(gs)
    /\ fireLog' = Append(fireLog, <<gid, 0>>)
    /\ timersPhase' = AnyTimerDue(timerQ', now)
    /\ UNCHANGED <<idxVars, dirVars, schedVars, toolVars, mode, splitVars, now, guardVars, timeoutHours, provider, pc, chunks,
                   splitCalled, callState, responses, processedChunks, callLog, merged,
                   keywordList>>

\* the async body returns or throws: processMarkdown's guard takes the result
\* and the scheduler's guard takes processMarkdown's
BodySettles(result) ==
    LET gs == Cascade([guards EXCEPT !["doc"] = GuardOpSettled(@, result)])
    IN /\ guards' = gs
       /\ timerQ' = PruneGuardTimers(timerQ, gs)
       /\ runState' = RunStateOf(gs)

\* extractAndSaveKeywords: await fs.mkdir(outputDir, { recursive: true })
Mkdir(ok) ==
    /\ mode = "pipeline"
    /\ pc = "mkdir"
    /\ ~timersPhase
    /\ IF ok
       THEN /\ pc' = "write"
            /\ outLog' = outLog
            /\ UNCHANGED <<guards, timerQ, runState>>
       ELSE /\ pc' = IndexFailure("mkdir").pc
            /\ outLog' = Append(outLog, BodyDid("mkdir", FALSE, 0))
            /\ IF IndexFailure("mkdir").thrown
               THEN BodySettles(<<"error", "mkdir">>)
               ELSE UNCHANGED <<guards, timerQ, runState>>
    /\ UNCHANGED <<idxVars, schedVars, toolVars, outDir, clean, cleanLog, mode, splitVars, now, fireLog,
                   guardVars, timeoutHours, provider, chunks, splitCalled, callState,
                   responses, processedChunks, callLog, merged, keywordList, timersPhase>>

\* extractAndSaveKeywords: await fs.writeFile(keywordListPath, keys.join('\n'))
WriteKeywordList(ok) ==
    /\ mode = "pipeline"
    /\ pc = "write"
    /\ ~timersPhase
    /\ IF ok
       THEN /\ pc' = "clean"
            /\ keywordList' =
                  <<"file", JoinWith(KeywordKeys(applyRules(merged[2]), 1, <<>>), <<"\n">>)>>
            /\ outLog' = Append(outLog, BodyDid("writeFile", TRUE, 0))
            /\ UNCHANGED <<guards, timerQ, runState>>
       ELSE /\ pc' = IndexFailure("writeFile").pc
            /\ keywordList' = keywordList
            /\ outLog' = Append(outLog, BodyDid("writeFile", FALSE, 0))
            /\ IF IndexFailure("writeFile").thrown
               THEN BodySettles(<<"error", "writeFile">>)
               ELSE UNCHANGED <<guards, timerQ, runState>>
    /\ UNCHANGED <<idxVars, schedVars, toolVars, outDir, clean, cleanLog, mode, splitVars, now, fireLog,
                   guardVars, timeoutHours, provider, chunks, splitCalled, callState,
                   responses, processedChunks, callLog, merged, timersPhase>>

\* await cleanDuplicateFiles(outputPath), then return processed.  The call
\* unlinks the first `stop` files of its deletion order.  It meets a failure
\* (~ok) at readdir, at a stat or at the unlink after those: its catch takes
\* the failure, and the body goes on when the call ended.
CleanAndReturn(stop, ok) ==
    /\ mode = "pipeline"
    /\ pc = "clean"
    /\ ~timersPhase
    /\ stop \in 0..Len(DeletionOrder(outDir))
    /\ ok => stop = Len(DeletionOrder(outDir))
    /\ ~ok => stop < Len(DeletionOrder(outDir)) \/ DeletionOrder(outDir) = <<>>
    /\ outDir' = RemoveFiles(outDir, DeletionOrder(outDir), stop)
    /\ outLog' = Append(outLog, BodyDid("cleanDuplicateFiles", ok, stop))
    /\ LET ended == IF ok THEN [NoClean EXCEPT !.pc = "done"] ELSE CleanCatches(NoClean, <<>>)
       IN IF ended.pc = "done"
          THEN /\ pc' = "returned"
               /\ BodySettles(<<"value", applyRules(merged[2])>>)
          ELSE /\ pc' = "threw"
               /\ BodySettles(<<"error", "cleanDuplicateFiles">>)
    /\ UNCHANGED <<idxVars, schedVars, toolVars, clean, cleanLog, mode, splitVars, now, fireLog,
                   guardVars, timeoutHours, provider, chunks, splitCalled, callState,
                   responses, processedChunks, callLog, merged, keywordList, timersPhase>>

PipelineTick ==
    /\ mode = "pipeline"
    /\ Tick
    /\ UNCHANGED <<idxVars, dirVars, schedVars, toolVars, mode, splitVars, timerQ, fireLog, guards, guardVars, pipeVars>>

NextPipeline ==
    \/ RunProcessing
    \/ \E k \in 1..Len(chunks), text \in TextsOfPipeline : CallResolves(k, text)
    \/ \E k \in 1..Len(chunks) : CallRejects(k)
    \/ \E k \in 1..Len(chunks) : AbortTimerFires(k)
    \/ \E gid \in {"sched", "doc"} : PipelineGuardTimerFires(gid)
    \/ \E ok \in BOOLEAN : Mkdir(ok)
    \/ \E ok \in BOOLEAN : WriteKeywordList(ok)
    \/ \E stop \in 0..MaxFiles, ok \in BOOLEAN : CleanAndReturn(stop, ok)
    \/ PipelineTick

SpecPipeline == InitPipeline /\ [][NextPipeline]_vars

\* ------------------------------------------------------------- SpecRules
\* applyRules, normalizeKeyword and the keyword extraction of
\* extractAndSaveKeywords, each applied to one text
Span(inner) == <<"[", "[">> \o inner \o <<"]", "]">>

TokCat == <<"C", "a", "t">>
TokCats == <<"C", "a", "t", "s">>
TokLowCat == <<"c", "a", "t">>
TokLowCats == <<"c", "a", "t", "s">>
TokUpCat == <<"C", "A", "T">>
TokRefS == <<"@", "s">>
TokAt == <<"@">>
TokYear == <<"1", "9", "9", "9">>
TokStories == <<"s", "t", "o", "r", "i", "e", "s">>
TokBoxes == <<"b", "o", "x", "e", "s">>

\* what a text handed to applyRules is made of: markup spans and a plain word
RulePieces ==
    {Span(TokCat), Span(TokCats), Span(TokLowCat), Span(TokLowCats), Span(TokUpCat),
     Span(TokRefS), Span(TokAt), Span(TokYear), <<"x">>}

\* the texts of at most n pieces, a blank between two pieces
RECURSIVE RuleTextsOf(_)
RuleTextsOf(n) ==
    IF n = 0 THEN {<<>>}
    ELSE LET shorter == RuleTextsOf(n - 1)
         IN shorter \cup RulePieces
                \cup {t \o <<" ">> \o p : t \in shorter \ {<<>>}, p \in RulePieces}

\* texts with a span inside another pair of brackets, after a span of the
\* same keyword or of another
NestedTexts ==
    {Span(first) \o <<" ">> \o Span(Span(TokLowCat)) : first \in {TokLowCat, TokLowCats, TokBoxes}}

\* keywords handed to normalizeKeyword
NormTokens ==
    {TokCat, TokCats, TokLowCat, TokLowCats, TokUpCat, TokStories, TokBoxes,
     <<"e", "s">>, <<"i", "e", "s">>, <<"s">>, <<"a", "s">>}

InitRules ==
    /\ mode = "rules"
    /\ content \in RuleTextsOf(MaxSpans) \cup NormTokens \cup NestedTexts
    /\ chunkSize = 1
    /\ splitResult = <<"none">>
    /\ TimeIdle
    /\ GuardIdle
    /\ PipeIdle
    /\ IdxIdle
    /\ DirIdle
    /\ SchedIdle
    /\ ToolIdle

CallApplyRules ==
    /\ mode = "rules"
    /\ rulesOut = <<"none">>
    /\ rulesOut' = <<"text", RuleStages(content)>>
    /\ UNCHANGED <<dirVars, schedVars, toolVars, mode, splitVars, timeVars, guardVars, pipeVars, normOut, keysOut,
                   backlinksDir, blCalls, blProcs>>

CallNormalizeKeyword ==
    /\ mode = "rules"
    /\ normOut = <<"none">>
    /\ normOut' = <<"text", normalizeKeyword(content)>>
    /\ UNCHANGED <<dirVars, schedVars, toolVars, mode, splitVars, timeVars, guardVars, pipeVars, rulesOut, keysOut,
                   backlinksDir, blCalls, blProcs>>

\* the loop of extractAndSaveKeywords over the matches of content
CallExtractKeywords ==
    /\ mode = "rules"
    /\ keysOut = <<"none">>
    /\ keysOut' = <<"keys", KeywordKeys(content, 1, <<>>)>>
    /\ UNCHANGED <<dirVars, schedVars, toolVars, mode, splitVars, timeVars, guardVars, pipeVars, rulesOut, normOut,
                   backlinksDir, blCalls, blProcs>>

NextRules ==
    \/ CallApplyRules
    \/ CallNormalizeKeyword
    \/ CallExtractKeywords

SpecRules == InitRules /\ [][NextRules]_vars

\* --------------------------------------------------------- createBacklinks
\* \w
IsWordChar(c) == c \in Upper \cup Lower \cup Digits \cup {"_"}

\* index of the last character of the run of word characters starting at i
RECURSIVE WordRunEnd(_, _)
WordRunEnd(t, i) ==
    IF i > Len(t) \/ ~IsWordChar(t[i]) THEN i - 1 ELSE WordRunEnd(t, i + 1)

\* content.match(/\b\w{4,}\b/g): the maximal runs of word characters that are
\* at least four characters long, left to right
RECURSIVE WordsOf(_, _)
WordsOf(t, i) ==
    IF i > Len(t) THEN <<>>
    ELSE IF IsWordChar(t[i])
         THEN LET e == WordRunEnd(t, i)
              IN (IF e - i + 1 >= 4 THEN <<Sub(t, i, e)>> ELSE <<>>) \o WordsOf(t, e + 1)
         ELSE WordsOf(t, i + 1)

\* the alternatives of the common-word pattern
StopWords ==
    {<<"t", "h", "e">>, <<"a", "n", "d">>, <<"f", "o", "r">>, <<"w", "i", "t", "h">>,
     <<"t", "h", "i", "s">>, <<"t", "h", "a", "t">>, <<"y", "o", "u", "r">>,
     <<"h", "a", "v", "e">>, <<"f", "r", "o", "m">>, <<"a", "b", "o", "u", "t">>,
     <<"w", "h", "e", "n">>, <<"w", "h", "e", "r", "e">>, <<"h", "o", "w">>,
     <<"w", "h", "y">>, <<"w", "h", "i", "c", "h">>, <<"t", "h", "e", "i", "r">>,
     <<"t", "h", "e", "r", "e">>, <<"b", "e", "e", "n">>, <<"i", "n", "t", "o">>,
     <<"o", "n", "l", "y">>, <<"m", "o", "r", "e">>, <<"s", "o", "m", "e">>,
     <<"s", "u", "c", "h">>, <<"t", "h", "a", "n">>, <<"t", "h", "e", "n">>,
     <<"t", "h", "e", "m">>, <<"w", "e", "r", "e">>, <<"w", "h", "a", "t">>,
     <<"w", "i", "l", "l">>, <<"w", "o", "u", "l", "d">>, <<"d", "o", "e", "s">>,
     <<"s", "a", "i", "d">>, <<"l", "i", "k", "e">>, <<"j", "u", "s", "t">>,
     <<"a", "l", "s", "o">>, <<"v", "e", "r", "y">>, <<"m", "u", "c", "h">>,
     <<"m", "a", "n", "y">>, <<"m", "o", "s", "t">>, <<"l", "e", "s", "s">>,
     <<"s", "a", "m", "e">>, <<"o", "t", "h", "e", "r">>,
     <<"a", "n", "o", "t", "h", "e", "r">>, <<"f", "i", "r", "s", "t">>,
     <<"l", "a", "s", "t">>, <<"n", "e", "x", "t">>,
     <<"p", "r", "e", "v", "i", "o", "u", "s">>, <<"n", "e", "w">>, <<"o", "l", "d">>,
     <<"g", "o", "o", "d">>, <<"b", "a", "d">>, <<"b", "i", "g">>,
     <<"s", "m", "a", "l", "l">>, <<"l", "o", "n", "g">>, <<"s", "h", "o", "r", "t">>,
     <<"h", "i", "g", "h">>, <<"l", "o", "w">>, <<"g", "r", "e", "a", "t">>,
     <<"l", "i", "t", "t", "l", "e">>, <<"f", "e", "w">>,
     <<"s", "e", "v", "e", "r", "a", "l">>, <<"o", "w", "n">>,
     <<"d", "i", "f", "f", "e", "r", "e", "n", "t">>, <<"n", "u", "m", "b", "e", "r">>}

\* /^(the|and|...|\d+)$/i.test(word)
IsCommonOrNumber(word) ==
    \/ ToLowerCase(word) \in StopWords
    \/ Len(word) > 0 /\ \A i \in 1..Len(word) : word[i] \in Digits

\* the keywords set after the loop over words, in insertion order
RECURSIVE KeywordsOf(_, _, _)
KeywordsOf(words, i, keywords) ==
    IF i > Len(words) THEN keywords
    ELSE LET word == ToLowerCase(words[i])
             known == \E j \in 1..Len(keywords) : keywords[j] = word
         IN KeywordsOf(words, i + 1,
                       IF IsCommonOrNumber(words[i]) \/ known THEN keywords
                       ELSE Append(keywords, word))

\* \b at the gap before position i of t
IsWordBoundary(t, i) ==
    (i > 1 /\ i - 1 <= Len(t) /\ IsWordChar(t[i - 1])) # (i <= Len(t) /\ IsWordChar(t[i]))

\* processedContent.replace(new RegExp(`\\b${keyword}\\b`, 'gi'), `[[${keyword}]]`)
RECURSIVE LinkKeyword(_, _, _)
LinkKeyword(t, keyword, i) ==
    LET n == Len(keyword)
    IN IF i > Len(t) THEN <<>>
       ELSE IF /\ i + n - 1 <= Len(t)
               /\ ToLowerCase(Sub(t, i, i + n - 1)) = keyword
               /\ IsWordBoundary(t, i)
               /\ IsWordBoundary(t, i + n)
            THEN Span(keyword) \o LinkKeyword(t, keyword, i + n)
            ELSE <<t[i]>> \o LinkKeyword(t, keyword, i + 1)

\* the loop that links every keyword, one keyword after the other
RECURSIVE LinkKeywords(_, _, _)
LinkKeywords(t, keywords, i) ==
    IF i > Len(keywords) THEN t
    ELSE LinkKeywords(LinkKeyword(t, keywords[i], 1), keywords, i + 1)

\* index of the last character of the run of characters other than ] from i
RECURSIVE NotCloseEnd(_, _)
NotCloseEnd(t, i) ==
    IF i > Len(t) \/ t[i] = "]" THEN i - 1 ELSE NotCloseEnd(t, i + 1)

\* /\[\[([^\]]+)\]\]/ matched at position i: the index of the match's last
\* character, 0 when there is no match at i
LinkEnd(t, i) ==
    IF i + 1 > Len(t) \/ t[i] # "[" \/ t[i + 1] # "[" THEN 0
    ELSE LET e == NotCloseEnd(t, i + 2)
         IN IF e >= i + 2 /\ e + 2 <= Len(t) /\ t[e + 1] = "]" /\ t[e + 2] = "]"
            THEN e + 2 ELSE 0

\* [...processedContent.matchAll(linkRegex)].map(match => match[1])
RECURSIVE LinksOf(_, _)
LinksOf(t, i) ==
    IF i > Len(t) THEN <<>>
    ELSE IF LinkEnd(t, i) > 0
         THEN <<Sub(t, i + 2, LinkEnd(t, i) - 2)>> \o LinksOf(t, LinkEnd(t, i) + 1)
         ELSE LinksOf(t, i + 1)

\* String.prototype.includes
Includes(t, sub) ==
    \E i \in 1..(Len(t) - Len(sub) + 1) : Sub(t, i, i + Len(sub) - 1) = sub

\* the segments of a path: split at "/"
RECURSIVE SegmentsFrom(_, _, _)
SegmentsFrom(t, i, seg) ==
    IF i > Len(t) THEN <<seg>>
    ELSE IF t[i] = "/" THEN <<seg>> \o SegmentsFrom(t, i + 1, <<>>)
    ELSE SegmentsFrom(t, i + 1, Append(seg, t[i]))

\* path.normalize on the segments: "." and empty segments go, ".." takes the
\* segment before it along
RECURSIVE ResolveSegments(_, _, _)
ResolveSegments(segs, i, acc) ==
    IF i > Len(segs) THEN acc
    ELSE IF segs[i] = <<>> \/ segs[i] = <<".">> THEN ResolveSegments(segs, i + 1, acc)
    ELSE IF segs[i] = <<".", ".">> /\ acc # <<>> /\ acc[Len(acc)] # <<".", ".">>
         THEN ResolveSegments(segs, i + 1, Sub(acc, 1, Len(acc) - 1))
    ELSE ResolveSegments(segs, i + 1, Append(acc, segs[i]))

\* path.join(BACKLINKS_DIR, `${keyword}.md`), as the path below BACKLINKS_DIR
BacklinkFile(keyword) ==
    JoinWith(ResolveSegments(SegmentsFrom(keyword \o <<".", "m", "d">>, 1, <<>>), 1, <<>>),
             <<"/">>)

\* `# ${keyword}`
HeaderOf(keyword) == <<"#", " ">> \o keyword

\* `[[${title}]]\n`
ReferenceLine(title) == Span(title) \o <<"\n">>

\* WriteBacklink with a fault: the header is written without looking at the
\* file
WriteBacklinkNoHeaderCheck(dir, keyword, title) ==
    LET name == BacklinkFile(keyword)
        existing == IF name \in DOMAIN dir THEN dir[name] ELSE <<>>
    IN (name :> (existing \o HeaderOf(keyword) \o <<"\n", "\n">> \o ReferenceLine(title)))
           @@ dir

\* existingContent after the inner try: what fs.readFile gave, nothing when
\* the file does not exist
ReadBacklink(dir, keyword) ==
    LET name == BacklinkFile(keyword) IN IF name \in DOMAIN dir THEN dir[name] ELSE <<>>

\* the if after the read: fs.writeFile puts header and reference in place of
\* the file when the header is not in what was read, fs.appendFile puts the
\* reference behind what the file holds now otherwise
WriteAfterRead(dir, keyword, title, existingContent) ==
    LET name == BacklinkFile(keyword)
    IN IF ~Includes(existingContent, HeaderOf(keyword))
       THEN (name :> (HeaderOf(keyword) \o <<"\n", "\n">> \o ReferenceLine(title))) @@ dir
       ELSE (name :> (ReadBacklink(dir, keyword) \o ReferenceLine(title))) @@ dir

\* the body of either loop: read the file (nothing when it does not exist),
\* write header and reference when the header is not in it, append the
\* reference otherwise
WriteBacklink(dir, keyword, title) ==
    LET name == BacklinkFile(keyword)
        existing == IF name \in DOMAIN dir THEN dir[name] ELSE <<>>
    IN IF ~Includes(existing, HeaderOf(keyword))
       THEN (name :> (HeaderOf(keyword) \o <<"\n", "\n">> \o ReferenceLine(title))) @@ dir
       ELSE (name :> (existing \o ReferenceLine(title))) @@ dir

\* the text createBacklinks returns
ProcessedContent(text) == LinkKeywords(text, KeywordsOf(WordsOf(text, 1), 1, <<>>), 1)

\* the files the two loops write, in order: one per keyword, then one per link
\* of the processed content
BacklinkOps(text) ==
    KeywordsOf(WordsOf(text, 1), 1, <<>>) \o LinksOf(ProcessedContent(text), 1)

\* the directory after the first n writes
RECURSIVE ApplyOps(_, _, _, _)
ApplyOps(dir, ops, title, n) ==
    IF n = 0 THEN dir
    ELSE WriteBacklink(ApplyOps(dir, ops, title, n - 1), ops[n], title)

BacklinkTitles == {<<"T", "1">>, <<"T", "2">>}

\* a word, a short span, a span around a word, one word in two letter cases, a
\* common word, a span next to a word, a span that names its file by a path
BacklinkContents ==
    {<<"n", "o", "t", "e">>,
     Span(TokLowCat),
     Span(<<"n", "o", "t", "e">>),
     <<"N", "o", "t", "e", " ", "n", "o", "t", "e">>,
     <<"t", "h", "i", "s">>,
     Span(TokLowCat) \o <<" ">> \o <<"n", "o", "t", "e">>,
     Span(<<".", "/">> \o TokLowCat)}

InitBacklinks ==
    /\ mode = "backlinks"
    /\ content = <<>>
    /\ chunkSize = 1
    /\ splitResult = <<"none">>
    /\ TimeIdle
    /\ GuardIdle
    /\ PipeIdle
    /\ IdxIdle
    /\ DirIdle
    /\ SchedIdle
    /\ ToolIdle

\* one call of createBacklinks(title, text).  stop = -1: ensureBacklinksDir
\* throws; stop = n below the number of writes: the write after the first n
\* throws and the call rejects; otherwise the call returns the processed content
createBacklinks(title, text, stop) ==
    /\ mode = "backlinks"
    /\ Len(blCalls) < MaxCalls
    /\ LET ops == BacklinkOps(text)
           done == IF stop < 0 THEN 0 ELSE stop
       IN /\ stop <= Len(ops)
          /\ backlinksDir' = ApplyOps(backlinksDir, ops, title, done)
          /\ blCalls' = Append(blCalls,
                               [title |-> title, content |-> text,
                                result |-> IF stop = Len(ops)
                                           THEN <<"returned", ProcessedContent(text)>>
                                           ELSE <<"threw">>])
    /\ UNCHANGED <<dirVars, schedVars, toolVars, mode, splitVars, timeVars, guardVars, pipeVars, rulesOut, normOut,
                   keysOut, blProcs>>

NextBacklinks ==
    \E title \in BacklinkTitles, text \in BacklinkContents :
        \E stop \in -1..Len(BacklinkOps(text)) : createBacklinks(title, text, stop)

SpecBacklinks == InitBacklinks /\ [][NextBacklinks]_vars

\* ---------------------------------------------------------- SpecInterleaved
\* two calls of createBacklinks made one after the other without awaiting the
\* first: each goes from await to await, and the event loop takes a step of
\* either
Callers == {1, 2}

TitleOf(c) == IF c = 1 THEN <<"T", "1">> ELSE <<"T", "2">>

\* a call at the top of a loop body: the next file, or the return
AtOp(proc, i) ==
    IF i > Len(BacklinkOps(proc.content))
    THEN [proc EXCEPT !.pc = "returned", !.i = i, !.existingContent = <<>>]
    ELSE [proc EXCEPT !.pc = "readFile", !.i = i, !.existingContent = <<>>]

InitInterleaved ==
    /\ mode = "interleaved"
    /\ content = <<>>
    /\ chunkSize = 1
    /\ splitResult = <<"none">>
    /\ TimeIdle
    /\ GuardIdle
    /\ PipeIdle
    /\ rulesOut = <<"none">>
    /\ normOut = <<"none">>
    /\ keysOut = <<"none">>
    /\ backlinksDir = <<>>
    /\ blCalls = <<>>
    /\ blProcs \in [Callers -> {[content |-> text, pc |-> "called", i |-> 0,
                                 existingContent |-> <<>>] : text \in BacklinkContents}]
    /\ DirIdle
    /\ SchedIdle
    /\ ToolIdle

\* createBacklinks(title, content) up to its first readFile: the directory is
\* there, the keywords are taken and linked
BacklinkCall(c) ==
    /\ mode = "interleaved"
    /\ blProcs[c].pc = "called"
    /\ blProcs' = [blProcs EXCEPT ![c] = AtOp(@, 1)]
    /\ UNCHANGED <<dirVars, schedVars, toolVars, mode, splitVars, timeVars, guardVars, pipeVars, rulesOut,
                   normOut, keysOut, backlinksDir, blCalls>>

\* await fs.readFile(keywordPath) answers
BacklinkRead(c) ==
    /\ mode = "interleaved"
    /\ blProcs[c].pc = "readFile"
    /\ blProcs' = [blProcs EXCEPT ![c] =
                      [@ EXCEPT !.pc = "write",
                                !.existingContent =
                                    ReadBacklink(backlinksDir,
                                                 BacklinkOps(blProcs[c].content)[blProcs[c].i])]]
    /\ UNCHANGED <<dirVars, schedVars, toolVars, mode, splitVars, timeVars, guardVars, pipeVars, rulesOut,
                   normOut, keysOut, backlinksDir, blCalls>>

\* await fs.writeFile / fs.appendFile answers, chosen by what was read; the
\* loop goes on to the next file
BacklinkWrite(c) ==
    /\ mode = "interleaved"
    /\ blProcs[c].pc = "write"
    /\ backlinksDir' = WriteAfterRead(backlinksDir,
                                      BacklinkOps(blProcs[c].content)[blProcs[c].i],
                                      TitleOf(c), blProcs[c].existingContent)
    /\ blProcs' = [blProcs EXCEPT ![c] = AtOp(@, @.i + 1)]
    /\ UNCHANGED <<dirVars, schedVars, toolVars, mode, splitVars, timeVars, guardVars, pipeVars, rulesOut,
                   normOut, keysOut, blCalls>>

NextInterleaved ==
    \/ \E c \in Callers : BacklinkCall(c)
    \/ \E c \in Callers : BacklinkRead(c)
    \/ \E c \in Callers : BacklinkWrite(c)

SpecInterleaved == InitInterleaved /\ [][NextInterleaved]_vars

\* ------------------------------------------------------------ TaskScheduler
MaxRuns == 3
MaxDocs == 2

\* the i-th document of the input directory: a.md, b.md, ...
Doc(i) == <<LowerSeq[i], ".", "m", "d">>

DocTxt == <<"a", ".", "t", "x", "t">>

Listing(k) == [i \in 1..k |-> Doc(i)]

Reversed(files) == [i \in 1..Len(files) |-> files[Len(files) + 1 - i]]

\* what readdir(inputDir) can list: up to MaxDocs documents in either order,
\* with or without a file that is not a document before them
InputListings ==
    UNION {{Listing(k), Reversed(Listing(k)), <<DocTxt>> \o Listing(k)} : k \in 0..MaxDocs}

\* runProcessing is called
NewRun(trigger) ==
    [trigger |-> trigger, pc |-> "readdir", files |-> <<>>, i |-> 0, started |-> <<>>,
     settled |-> <<>>, outcome |-> "none"]

\* the for loop takes the next file, or ends and "Completed" is logged
NextDocument(run) ==
    IF run.i < Len(run.files) THEN [run EXCEPT !.pc = "readFile", !.i = @ + 1]
    ELSE [run EXCEPT !.pc = "done", !.outcome = "completed"]

\* RunCatches with a fault: the failure is logged inside the loop, which goes on
RunCatchesAndGoesOn(run) ==
    IF run.i < Len(run.files) THEN [run EXCEPT !.pc = "readFile", !.i = @ + 1]
    ELSE [run EXCEPT !.pc = "done", !.outcome = "failed"]

\* the catch around the whole body of runProcessing: the error is logged and
\* the function returns
RunCatches(run) == [run EXCEPT !.pc = "done", !.outcome = "failed"]

\* the check of the configuration inside the loop
ConfigComplete == timeoutHours # 0

InitScheduler ==
    /\ mode = "scheduler"
    /\ content = <<>>
    /\ chunkSize = 1
    /\ splitResult = <<"none">>
    /\ TimeIdle
    /\ GuardIdle
    /\ timeoutHours \in 0..MaxTimeoutHours
    /\ provider = "deepseek"
    /\ runState = "idle"
    /\ pc = "idle"
    /\ chunks = <<>>
    /\ splitCalled = FALSE
    /\ callState = <<>>
    /\ responses = <<>>
    /\ processedChunks = <<>>
    /\ callLog = <<>>
    /\ merged = <<"none">>
    /\ keywordList = <<"absent">>
    /\ timersPhase = FALSE
    /\ IdxIdle
    /\ DirIdle
    /\ inputDir \in InputListings
    /\ runs = <<>>
    /\ cronOn = FALSE
    /\ ToolIdle

\* start(): the initial run is called and awaited
Start ==
    /\ mode = "scheduler"
    /\ runs = <<>>
    /\ runs' = <<NewRun("initial")>>
    /\ UNCHANGED <<mode, splitVars, timeVars, guardVars, pipeVars, idxVars, dirVars, toolVars,
                   inputDir, cronOn>>

\* start() after its await: the initial run has returned, cron.schedule
\* registers the task
RegisterCron ==
    /\ mode = "scheduler"
    /\ ~cronOn
    /\ runs # <<>>
    /\ runs[1].pc = "done"
    /\ runs[1].outcome # "raised"
    /\ cronOn' = TRUE
    /\ UNCHANGED <<mode, splitVars, timeVars, guardVars, pipeVars, idxVars, dirVars, toolVars,
                   inputDir, runs>>

\* the schedule matches: node-cron calls the task, whatever earlier calls of it
\* are doing
CronFires ==
    /\ mode = "scheduler"
    /\ cronOn
    /\ Len(runs) < MaxRuns
    /\ runs' = Append(runs, NewRun("cron"))
    /\ UNCHANGED <<mode, splitVars, timeVars, guardVars, pipeVars, idxVars, dirVars, toolVars,
                   inputDir, cronOn>>

\* await fs.readdir(inputDir) of run r answers
Readdir(r, ok) ==
    /\ mode = "scheduler"
    /\ r \in 1..Len(runs)
    /\ runs[r].pc = "readdir"
    /\ runs' = [runs EXCEPT ![r] =
                   IF ok THEN NextDocument([@ EXCEPT !.files = MdFiles(inputDir)])
                   ELSE RunCatches(@)]
    /\ UNCHANGED <<mode, splitVars, timeVars, guardVars, pipeVars, idxVars, dirVars, toolVars,
                   inputDir, cronOn>>

\* await fs.readFile of run r answers: the configuration is checked and
\* scheduleWithTimeout(() => processMarkdown(...)) is called and awaited
ReadFile(r, ok) ==
    /\ mode = "scheduler"
    /\ r \in 1..Len(runs)
    /\ runs[r].pc = "readFile"
    /\ runs' = [runs EXCEPT ![r] =
                   IF ok /\ ConfigComplete
                   THEN [@ EXCEPT !.pc = "process", !.started = Append(@, runs[r].files[runs[r].i])]
                   ELSE RunCatches(@)]
    /\ UNCHANGED <<mode, splitVars, timeVars, guardVars, pipeVars, idxVars, dirVars, toolVars,
                   inputDir, cronOn>>

\* the guard around processMarkdown settles for run r: with the processed
\* text, with its timeout, or with an error of processMarkdown
DocumentSettles(r, result) ==
    /\ mode = "scheduler"
    /\ r \in 1..Len(runs)
    /\ runs[r].pc = "process"
    /\ LET run == [runs[r] EXCEPT !.settled = Append(@, result)]
       IN runs' = [runs EXCEPT ![r] =
                      IF result = "value" THEN NextDocument(run) ELSE RunCatches(run)]
    /\ UNCHANGED <<mode, splitVars, timeVars, guardVars, pipeVars, idxVars, dirVars, toolVars,
                   inputDir, cronOn>>

NextScheduler ==
    \/ Start
    \/ RegisterCron
    \/ CronFires
    \/ \E r \in 1..MaxRuns, ok \in BOOLEAN : Readdir(r, ok)
    \/ \E r \in 1..MaxRuns, ok \in BOOLEAN : ReadFile(r, ok)
    \/ \E r \in 1..MaxRuns, result \in {"value", "timeout", "error"} : DocumentSettles(r, result)

SpecScheduler == InitScheduler /\ [][NextScheduler]_vars

\* ------------------------------------------------------- delete_duplicates
\* path.normalize(a + '/' + b): path.join of a directory and a name
PathJoin(a, b) ==
    JoinWith(ResolveSegments(SegmentsFrom(a \o <<"/">> \o b, 1, <<>>), 1, <<>>), <<"/">>)

\* the directory a path is in, and its last segment
DirOf(file) ==
    LET segs == SegmentsFrom(file, 1, <<>>)
    IN JoinWith(Sub(segs, 1, Len(segs) - 1), <<"/">>)

NameOf(file) == LET segs == SegmentsFrom(file, 1, <<>>) IN segs[Len(segs)]

\* a directory as the file system knows it, however the argument spells it
RealDir(dir) == JoinWith(ResolveSegments(SegmentsFrom(dir, 1, <<>>), 1, <<>>), <<"/">>)

\* path.basename(file, '.md').toLowerCase()
BasenameKey(file) ==
    LET name == NameOf(file)
    IN ToLowerCase(IF IsMd(name) /\ Len(name) > 3 THEN Sub(name, 1, Len(name) - 3) ELSE name)

DirSearch == <<"s">>
DirKb == <<"s", "/", "k">>
DirKbSub == <<"s", "/", "k", "/", "d">>
DirKbLike == <<"s", "/", "k", "2">>
DirOther == <<"s", "/", "o">>
DirApart == <<"k">>

NameUpA == <<"A", ".", "m", "d">>

\* every file there can be, in the order readdirSync lists them
TreeOrder ==
    <<PathJoin(DirKb, Doc(1)), PathJoin(DirKb, NameUpA), PathJoin(DirKb, Doc(2)),
      PathJoin(DirKb, DocTxt), PathJoin(DirKbSub, Doc(1)), PathJoin(DirKbLike, Doc(1)),
      PathJoin(DirOther, Doc(1)), PathJoin(DirOther, Doc(2)), PathJoin(DirApart, Doc(1))>>

TreeFiles == {TreeOrder[i] : i \in 1..Len(TreeOrder)}

\* the knowledge_base_path arguments: the directory inside the search path,
\* the same with a slash at the end or "./" in front, and a directory apart
KbArgs == {DirKb, DirKb \o <<"/">>, <<".", "/">> \o DirKb, DirApart}

\* the files of a tree in listing order
Listed(files) == SelectSeq(TreeOrder, LAMBDA f : f \in files)

\* readdirSync(searchPath, {recursive: true, withFileTypes: true}), the filter
\* on files ending in .md, path.join(dirent.path, dirent.name)
AllFiles(files, searchPath) ==
    LET Below(f) == StartsWith(DirOf(f) \o <<"/">>, RealDir(searchPath) \o <<"/">>) /\ IsMd(NameOf(f))
        found == SelectSeq(Listed(files), Below)
    IN [i \in 1..Len(found) |-> PathJoin(DirOf(found[i]), NameOf(found[i]))]

\* readdirSync(knowledgeBasePath, {withFileTypes: true}), the same filter and
\* join: dirent.path is the argument as it was given
DeletePathFiles(files, knowledgeBasePath) ==
    LET Inside(f) == DirOf(f) = RealDir(knowledgeBasePath) /\ IsMd(NameOf(f))
        found == SelectSeq(Listed(files), Inside)
    IN [i \in 1..Len(found) |-> PathJoin(knowledgeBasePath, NameOf(found[i]))]

\* filenameGroups.get(basename) || []
MatchesOf(allFiles, file) ==
    SelectSeq(allFiles, LAMBDA match : BasenameKey(match) = BasenameKey(file))

\* hasMatchOutsideDeletePath with a fault: startsWith is not looked at
HasOtherMatch(matches, file, knowledgeBasePath) ==
    \E m \in 1..Len(matches) : matches[m] # file

\* matches.some(match => match !== file && !match.startsWith(knowledgeBasePath))
HasMatchOutsideDeletePath(matches, file, knowledgeBasePath) ==
    \E m \in 1..Len(matches) :
        matches[m] # file /\ ~StartsWith(matches[m], knowledgeBasePath)

\* filesToDelete, in insertion order
FilesToDelete(files, knowledgeBasePath, searchPath) ==
    LET allFiles == AllFiles(files, searchPath)
        Chosen(file) ==
            /\ Len(MatchesOf(allFiles, file)) > 1
            /\ HasMatchOutsideDeletePath(MatchesOf(allFiles, file), file, knowledgeBasePath)
    IN SelectSeq(DeletePathFiles(files, knowledgeBasePath), Chosen)

\* the loop over filesToDelete: unlinkSync in a try of its own
DeletionResults(toDelete, refused) ==
    [i \in 1..Len(toDelete) |->
        [file |-> toDelete[i],
         status |-> IF toDelete[i] \in refused THEN "failed" ELSE "deleted"]]

InitTool ==
    /\ mode = "tool"
    /\ content = <<>>
    /\ chunkSize = 1
    /\ splitResult = <<"none">>
    /\ TimeIdle
    /\ GuardIdle
    /\ PipeIdle
    /\ IdxIdle
    /\ DirIdle
    /\ SchedIdle
    /\ tree \in SUBSET TreeFiles
    /\ toolResult = <<"none">>

\* the delete_duplicates tool, from the check of its two paths to its answer.
\* kbExists: knowledge_base_path is a directory (it is one when a file is in
\* it); refused: the files unlinkSync throws on.
DeleteDuplicates(knowledgeBasePath, kbExists, refused) ==
    /\ mode = "tool"
    /\ toolResult = <<"none">>
    /\ (\E f \in tree : StartsWith(f, RealDir(knowledgeBasePath) \o <<"/">>)) => kbExists
    /\ LET toDelete == FilesToDelete(tree, knowledgeBasePath, DirSearch)
           results == DeletionResults(toDelete, refused)
       IN IF ~kbExists
          THEN /\ refused = {}
               /\ toolResult' = <<"threw", knowledgeBasePath>>
               /\ tree' = tree
          ELSE /\ refused \subseteq {toDelete[i] : i \in 1..Len(toDelete)}
               /\ tree' = tree \ {results[i].file : i \in {j \in 1..Len(results) :
                                                             results[j].status = "deleted"}}
               /\ toolResult' =
                     <<"returned",
                       [before |-> tree,
                        knowledgeBasePath |-> knowledgeBasePath,
                        totalFilesScanned |-> Len(AllFiles(tree, DirSearch)),
                        duplicatesFound |-> Len(toDelete),
                        deletionResults |-> results]>>
    /\ UNCHANGED <<mode, splitVars, timeVars, guardVars, pipeVars, idxVars, dirVars, schedVars>>

NextTool ==
    \E knowledgeBasePath \in KbArgs, kbExists \in BOOLEAN :
        \E refused \in SUBSET {f \in tree : DirOf(f) = RealDir(knowledgeBasePath)} :
            DeleteDuplicates(knowledgeBasePath, kbExists, refused)

SpecTool == InitTool /\ [][NextTool]_vars

\* ----------------------------------------------- claims on the pipeline
InPipeline == mode = "pipeline"

FailedCalls == {k \in 1..Len(callState) : callState[k] \in {"error", "aborted"}}

\* the text the merge must hold for chunk k
ExpectedResult(k) == IF k \in FailedCalls THEN chunks[k] ELSE responses[k][2]

\* C1: whatever set of chunks fails at the backend, the loop visits every
\* chunk and the merged text is the in-order join, by a blank line, of the
\* original text of the failed chunks and the backend output of the others; a
\* backend failure never makes the body, and so processMarkdown, reject.
C1_FailedChunksFallBack ==
    InPipeline =>
        /\ merged[1] = "text" =>
              /\ \A k \in 1..Len(chunks) : IsCallSettled(callState[k])
              /\ merged[2] = Join([k \in 1..Len(chunks) |-> ExpectedResult(k)])
        /\ pc \in {"mkdir", "write", "clean", "returned", "threw"} => merged[1] = "text"
        /\ guards["doc"].outcome[1] = "error" =>
              guards["doc"].outcome[2] \in {"mkdir", "writeFile"}

\* three chunks, two of them failed, and the body returned
C1_Witness ==
    /\ InPipeline
    /\ pc = "returned"
    /\ Len(chunks) = 3
    /\ Cardinality(FailedCalls) = 2
    /\ guards["doc"].outcome[1] = "value"

\* C2: the backend calls of a document are sequential in chunk order: at most
\* one is in flight, call k+1 starts after call k ended, and one result per
\* chunk is recorded, in chunk order.
C2_SequentialCalls ==
    InPipeline =>
        /\ Cardinality({k \in 1..Len(callState) : callState[k] = "inflight"}) <= 1
        /\ \A i \in 1..Len(callLog) :
              callLog[i] = <<IF i % 2 = 1 THEN "start" ELSE "end", (i + 1) \div 2>>
        /\ Len(processedChunks) = Len(callLog) \div 2
        /\ \A k \in 1..Len(processedChunks) :
              processedChunks[k] = IF callState[k] = "ok" THEN responses[k][2] ELSE chunks[k]
        /\ merged[1] = "text" => Len(processedChunks) = Len(chunks)

\* the third call of a three-chunk document is in flight after two ended
C2_Witness ==
    /\ InPipeline
    /\ provider = "deepseek"
    /\ Len(chunks) = 3
    /\ Len(processedChunks) = 2
    /\ callState[3] = "inflight"

\* C3: a backend call that outlives its own deadline makes only its chunk fall
\* back to the original text; the later chunks are processed and
\* processMarkdown resolves with the merged text.
C3_ChunkTimeoutFallsBack ==
    InPipeline =>
        \A i \in 1..Len(callState) :
            (callState[i] = "aborted" /\ pc = "returned") =>
                /\ Len(processedChunks) = Len(chunks)
                /\ processedChunks[i] = chunks[i]
                /\ guards["doc"].outcome = <<"value", applyRules(merged[2])>>

\* nesting depth of a timer: the scheduler's guard, processMarkdown's guard,
\* the provider's request
TimerLevel(entry) ==
    IF entry[1] = "sched" THEN 0 ELSE IF entry[1] = "doc" THEN 1 ELSE 2

\* C6: the deadlines are nested, outer >= inner: the timer of an outer guard
\* never fires before the timer of a guard nested inside it.
C6_OuterNeverFiresFirst ==
    InPipeline =>
        \A i \in 1..Len(fireLog), j \in 1..Len(fireLog) :
            i < j => TimerLevel(fireLog[i]) >= TimerLevel(fireLog[j])

\* C7: when the document-level deadline expires before the body finishes,
\* processMarkdown rejects with the timeout error; no text is returned, then
\* or when the body finishes later.
C7_DocumentTimeoutRejects ==
    InPipeline =>
        (guards["doc"].timer = "fired" =>
            /\ guards["doc"].outcome = <<"timeout", timeoutHours * HourMs>>
            /\ guards["sched"].outcome[1] = "timeout")

\* the deadline expired and the abandoned body ran to its return
C7_Witness ==
    /\ InPipeline
    /\ guards["doc"].timer = "fired"
    /\ pc = "returned"

StartedCalls == {i \in 1..Len(callLog) : callLog[i][1] = "start"}

\* C8: a document of length <= 2 * chunkSize is not given to the chunker: the
\* body processes one chunk, the whole document, with one backend call; only
\* longer documents are split.
C8_ShortDocumentIsOneChunk ==
    (InPipeline /\ pc # "idle") =>
        /\ Len(content) <= 2 * chunkSize =>
              /\ ~splitCalled
              /\ chunks = <<content>>
              /\ Cardinality(StartedCalls) = 1
        /\ Len(content) > 2 * chunkSize =>
              /\ splitCalled
              /\ chunks = splitMarkdown(content, chunkSize)

\* a short document that the chunker would not have returned whole
C8_Witness ==
    /\ InPipeline
    /\ pc = "returned"
    /\ Len(content) <= 2 * chunkSize
    /\ splitMarkdown(content, chunkSize) # <<content>>
    /\ Len(processedChunks) = 1

\* -------------------------------------------------- claims on the guard
\* C4: scheduleWithTimeout settles once, with the first of the two events: an
\* operation that settles first gives the guard its value or error and
\* onTimeout is never invoked; a deadline that expires first invokes onTimeout
\* once and rejects with the timeout error carrying the configured duration,
\* whatever the operation does later.
C4_GuardRace ==
    mode = "guard" =>
        LET g == guards["g"]
        IN /\ raceWinner = "none" => ~IsSettled(g)
           /\ raceWinner = "op" => g.outcome = opState /\ g.onTimeoutCalls = 0
           /\ raceWinner = "deadline" =>
                 /\ g.outcome = <<"timeout", g.timeoutMs>>
                 /\ g.timeoutMs \in {h * HourMs : h \in 1..MaxTimeoutHours}
                 /\ g.onTimeoutCalls = IF g.hasOnTimeout THEN 1 ELSE 0
           /\ raceWinner = "threw" => g.outcome = <<"error", "op">>

\* the deadline expired first, onTimeout ran, and the operation resolved later
C4_Witness ==
    /\ mode = "guard"
    /\ raceWinner = "deadline"
    /\ opState = <<"value", "v">>
    /\ guards["g"].onTimeoutCalls = 1
    /\ guards["g"].outcome[1] = "timeout"

\* C5: whatever the outcome (the operation succeeds, fails, throws before
\* returning a promise, or the deadline expires), once the guard has settled its
\* timer is no longer pending, and the timer never fires after the operation's
\* outcome was delivered.
C5_NoTimerLeftPending ==
    mode = "guard" =>
        LET g == guards["g"]
        IN /\ IsSettled(g) => g.timer \in {"cleared", "fired"}
           /\ raceWinner \in {"op", "threw"} => g.timer # "fired"

\* ------------------------------------------------- reading chunks back
\* the non-blank paragraphs of a text, in order
RECURSIVE OddNonBlank(_, _)
OddNonBlank(ps, i) ==
    IF i > Len(ps) THEN <<>>
    ELSE (IF IsBlank(ps[i]) THEN <<>> ELSE <<ps[i]>>) \o OddNonBlank(ps, i + 2)

NonBlankParas(t) == OddNonBlank(SplitParagraphs(t), 1)

\* number of whitespace-delimited tokens of a text (maximal runs of
\* non-whitespace characters)
TokenCount(t) ==
    Cardinality({i \in 1..Len(t) : ~IsWs(t[i]) /\ (i = 1 \/ IsWs(t[i - 1]))})

RECURSIVE SumTokens(_)
SumTokens(ps) == IF ps = <<>> THEN 0 ELSE TokenCount(Head(ps)) + SumTokens(Tail(ps))

RECURSIVE ParasOfChunks(_)
ParasOfChunks(cs) ==
    IF cs = <<>> THEN <<>> ELSE NonBlankParas(Head(cs)) \o ParasOfChunks(Tail(cs))

SplitReturned == mode = "split" /\ splitResult[1] = "chunks"

\* C9: every chunk splitMarkdown returns holds at most chunkSize tokens, unless
\* it is exactly one paragraph that alone exceeds chunkSize; every paragraph
\* that alone exceeds chunkSize is a chunk of its own, whole.
C9_ChunkWithinBound ==
    SplitReturned =>
        LET cs == splitResult[2]
            docParas == NonBlankParas(content)
        IN /\ \A k \in 1..Len(cs) :
                 LET ps == NonBlankParas(cs[k])
                 IN \/ SumTokens(ps) <= chunkSize
                    \/ Len(ps) = 1 /\ TokenCount(ps[1]) > chunkSize
           /\ \A j \in 1..Len(docParas) :
                 TokenCount(docParas[j]) > chunkSize =>
                     \E k \in 1..Len(cs) : NonBlankParas(cs[k]) = <<docParas[j]>>

\* an oversized paragraph was emitted alone, next to another chunk
C9_Witness ==
    /\ SplitReturned
    /\ \E k \in 1..Len(splitResult[2]) :
          LET ps == NonBlankParas(splitResult[2][k])
          IN Len(ps) = 1 /\ TokenCount(ps[1]) > chunkSize
    /\ Len(splitResult[2]) > 1

\* C10: the non-blank paragraphs read off the returned chunks, in chunk order,
\* are the document's non-blank paragraphs: none dropped, duplicated, reordered
\* or split across two chunks.
C10_ParagraphsPreserved ==
    SplitReturned => ParasOfChunks(splitResult[2]) = NonBlankParas(content)

\* several chunks came back, one of them holding two paragraphs
C10_Witness ==
    /\ SplitReturned
    /\ Len(splitResult[2]) > 1
    /\ \E k \in 1..Len(splitResult[2]) : Len(NonBlankParas(splitResult[2][k])) > 1

\* C11: the chunks splitMarkdown returns, concatenated in order with nothing
\* added between them, are the original text, whatever whitespace or blank
\* lines the text begins or ends with.
C11_ConcatReconstructs ==
    SplitReturned => Concat(splitResult[2]) = content

\* ------------------------------------------------ reading markup off a text
\* the contents of the [[...]] spans of a text, left to right
RECURSIVE SpansOf(_, _)
SpansOf(t, i) ==
    IF i > Len(t) THEN <<>>
    ELSE IF MarkupEnd(t, i) > 0
         THEN <<MarkupInner(t, i)>> \o SpansOf(t, MarkupEnd(t, i) + 1)
         ELSE SpansOf(t, i + 1)

\* the text without its bracket characters
StripBrackets(t) == SelectSeq(t, LAMBDA c : ~IsBracket(c))

RulesApplied == mode = "rules" /\ rulesOut[1] = "text"

\* the spans of the text are sing twice and plur once, in any order
ThreeSpans(t, sing, plur) ==
    LET spans == SpansOf(t, 1)
    IN /\ Len(spans) = 3
       /\ Cardinality({i \in 1..3 : spans[i] = sing}) = 2
       /\ Cardinality({i \in 1..3 : spans[i] = plur}) = 1

\* only the first span of the text is still markup, and the text of every
\* span is still there
FirstSpanAloneKept(t, out) ==
    /\ SpansOf(out, 1) = <<SpansOf(t, 1)[1]>>
    /\ StripBrackets(out) = StripBrackets(t)

\* C12 as stated: in a text with [[Cat]] twice and [[Cats]] once, applyRules
\* leaves exactly the first of the three spans as markup and the other two as
\* plain text.
C12_OneOfThreeStaysMarkup ==
    RulesApplied /\ ThreeSpans(content, TokCat, TokCats)
        => FirstSpanAloneKept(content, rulesOut[2].refs)

\* C12 as amended: in a text whose spans are [[cat]] twice and [[cats]] once
\* (lowercase, so that name filtering leaves them alone) and which has no other
\* bracket, applyRules leaves exactly the first of the three spans as markup
\* and the other two as plain text.
C12_LowercaseOneOfThreeStaysMarkup ==
    RulesApplied /\ ThreeSpans(content, TokLowCat, TokLowCats)
        => FirstSpanAloneKept(content, rulesOut[2].refs)

\* applyRules ran on [[cats]] [[cat]] [[cat]]: the plural came first and stayed
C12_Witness ==
    /\ RulesApplied
    /\ SpansOf(content, 1) = <<TokLowCats, TokLowCat, TokLowCat>>
    /\ SpansOf(rulesOut[2].refs, 1) = <<TokLowCats>>

\* the spans a filtering rule (names and numbers, references) matches
IsFiltered(inner) == SpanMatches("names", inner) \/ SpanMatches("refs", inner)

\* of the spans no filtering rule matches, the first of every normalized form
RECURSIVE FirstSeenUnfiltered(_, _, _)
FirstSeenUnfiltered(spans, i, seen) ==
    IF i > Len(spans) THEN <<>>
    ELSE LET normalized == normalizeKeyword(spans[i])
         IN IF IsFiltered(spans[i]) THEN FirstSeenUnfiltered(spans, i + 1, seen)
            ELSE (IF normalized \in seen THEN <<>> ELSE <<spans[i]>>)
                     \o FirstSeenUnfiltered(spans, i + 1, seen \cup {normalized})

\* C13: both filtering rules act before duplicate suppression: the spans that
\* are markup after applyRules are the spans no filtering rule matches, each
\* normalized form at its first such span; a span that a filter removes never
\* takes the place of a later span of the same normalized form.
C13_FiltersBeforeDuplicates ==
    RulesApplied =>
        SpansOf(rulesOut[2].refs, 1) = FirstSeenUnfiltered(SpansOf(content, 1), 1, {})

\* C14: name/number filtering takes away brackets only: the text without its
\* brackets is the same before and after rule 2.
C14_NameFilterKeepsText ==
    RulesApplied => StripBrackets(rulesOut[2].names) = StripBrackets(content)

KeywordNormalized == mode = "rules" /\ normOut[1] = "text"

\* the suffix rules in the order the claim gives them
SuffixRules(token) ==
    IF EndsWith(token, <<"i", "e", "s">>)
    THEN Sub(token, 1, Len(token) - 3) \o <<"y">>
    ELSE IF EndsWith(token, <<"e", "s">>) THEN Sub(token, 1, Len(token) - 2)
    ELSE IF Len(token) > 1 /\ EndsWith(token, <<"s">>) THEN Sub(token, 1, Len(token) - 1)
    ELSE token

\* C15: normalizeKeyword returns what the suffix rules give: ies -> y,
\* otherwise es dropped, otherwise a final s dropped from a token longer than
\* one character, otherwise the token itself.
C15_SuffixRules ==
    KeywordNormalized => normOut[2] = SuffixRules(content)

\* C16: a normalized keyword is lowercase, and no two keys of the keyword map
\* differ in letter case only.
C16_NormalizedIsLowercase ==
    /\ KeywordNormalized => \A i \in 1..Len(normOut[2]) : normOut[2][i] \notin Upper
    /\ mode = "rules" /\ keysOut[1] = "keys" =>
           \A i, j \in 1..Len(keysOut[2]) :
               ToLowerCase(keysOut[2][i]) = ToLowerCase(keysOut[2][j]) => i = j

\* --------------------------------------------------- the keyword list
\* the normalized form of a markup token as specified: lowercase, singular
NormalForm(token) == SuffixRules(ToLowerCase(token))

\* the elements of a sequence, each at its first place
RECURSIVE DistinctInOrder(_, _)
DistinctInOrder(ts, i) ==
    IF i > Len(ts) THEN <<>>
    ELSE (IF \E j \in 1..(i - 1) : ts[j] = ts[i] THEN <<>> ELSE <<ts[i]>>)
             \o DistinctInOrder(ts, i + 1)

\* one line per distinct normalized keyword of the spans of the text, in
\* first-seen order
KeywordLines(processed) ==
    LET spans == SpansOf(processed, 1)
    IN JoinWith(DistinctInOrder([i \in 1..Len(spans) |-> NormalForm(spans[i])], 1), <<"\n">>)

\* processMarkdown resolved with the processed text
RunSucceeded == InPipeline /\ guards["doc"].outcome[1] = "value"

\* C17: after a successful run keyword_list.txt holds the distinct normalized
\* keywords of the spans of the processed text, one per line, in first-seen
\* order, none repeated, whatever the file held before.
C17_KeywordListWritten ==
    RunSucceeded => keywordList = <<"file", KeywordLines(guards["doc"].outcome[2])>>

\* ------------------------------------------------------ backlink files
\* C18: after a successful run every markup span of the processed text has a
\* backlink file with a reference line in it.
C18_SpansHaveBacklinkFiles ==
    RunSucceeded =>
        LET spans == SpansOf(guards["doc"].outcome[2], 1)
        IN \A i \in 1..Len(spans) :
              /\ BacklinkFile(spans[i]) \in DOMAIN backlinksDir
              /\ \E title \in BacklinkTitles :
                    Includes(backlinksDir[BacklinkFile(spans[i])], ReferenceLine(title))

\* the lines of a text: text.split('\n')
RECURSIVE LinesFrom(_, _, _)
LinesFrom(t, i, line) ==
    IF i > Len(t) THEN <<line>>
    ELSE IF t[i] = "\n" THEN <<line>> \o LinesFrom(t, i + 1, <<>>)
    ELSE LinesFrom(t, i + 1, Append(line, t[i]))

LinesOf(t) == LinesFrom(t, 1, <<>>)

\* the keyword a backlink file is kept for: its name without .md
KeywordOfFile(name) == Sub(name, 1, Len(name) - 3)

InBacklinks == mode = "backlinks"

AllCallsReturned == \A i \in 1..Len(blCalls) : blCalls[i].result[1] = "returned"

\* how often the processed content of a call annotates the keyword
AnnotationsOf(call, keyword) ==
    LET links == LinksOf(call.result[2], 1)
    IN Cardinality({i \in 1..Len(links) : links[i] = keyword})

RECURSIVE Repeat(_, _)
Repeat(line, n) == IF n = 0 THEN <<>> ELSE line \o Repeat(line, n - 1)

\* one reference line per annotation of the keyword, call after call
RECURSIVE ReferencesFrom(_, _)
ReferencesFrom(keyword, i) ==
    IF i > Len(blCalls) THEN <<>>
    ELSE Repeat(ReferenceLine(blCalls[i].title), AnnotationsOf(blCalls[i], keyword))
             \o ReferencesFrom(keyword, i + 1)

\* C19: after calls of createBacklinks that all returned, the backlink file of
\* a keyword is its header followed by exactly one reference line per
\* annotation of the keyword, in call order: one header and two reference
\* lines after two calls whose content references the keyword once.
C19_OneReferencePerAnnotation ==
    InBacklinks /\ AllCallsReturned =>
        \A name \in DOMAIN backlinksDir :
            backlinksDir[name] =
                HeaderOf(KeywordOfFile(name)) \o <<"\n", "\n">>
                    \o ReferencesFrom(KeywordOfFile(name), 1)

\* the keywords and links of the calls made so far
KeywordsWritten ==
    UNION {{BacklinkOps(blCalls[i].content)[j] :
                j \in 1..Len(BacklinkOps(blCalls[i].content))} : i \in 1..Len(blCalls)}

IsHeaderLine(line) == StartsWith(line, <<"#", " ">>)

\* C20: every backlink file has the header line "# keyword" of a keyword it is
\* the file of as its first line, and no header line anywhere else, in every
\* state the calls lead to from the empty directory.
C20_HeaderOnceFirstLine ==
    InBacklinks =>
        \A name \in DOMAIN backlinksDir :
            LET lines == LinesOf(backlinksDir[name])
            IN /\ \E keyword \in KeywordsWritten :
                      BacklinkFile(keyword) = name /\ lines[1] = HeaderOf(keyword)
               /\ Cardinality({i \in 1..Len(lines) : IsHeaderLine(lines[i])}) = 1

\* two calls returned and one file holds a reference line of each
C20_Witness ==
    /\ InBacklinks
    /\ Len(blCalls) = 2
    /\ AllCallsReturned
    /\ \E name \in DOMAIN backlinksDir :
          /\ Includes(backlinksDir[name], ReferenceLine(<<"T", "1">>))
          /\ Includes(backlinksDir[name], ReferenceLine(<<"T", "2">>))

\* C21: a call of createBacklinks leaves every file of the directory in place
\* with its content as the beginning of the new content: every line stays at
\* its position, no file is truncated or rewritten with less.
C21_FilesOnlyGrow ==
    [][InBacklinks =>
          \A name \in DOMAIN backlinksDir :
              /\ name \in DOMAIN backlinksDir'
              /\ StartsWith(backlinksDir'[name], backlinksDir[name])]_vars

\* ------------------------------------------------ claims on the reconciler
InClean == mode = "clean"

\* a call of cleanDuplicateFiles ended without a failure, and no other process
\* touched the directory meanwhile
CleanCompleted == InClean /\ clean.pc = "done" /\ clean.failed = <<>> /\ clean.vanished = {}

\* the key of a group: the name without extension, without the characters that
\* are neither letters nor digits, in lowercase
KeyOf(name) ==
    LET stem == IF IsMd(name) THEN Sub(name, 1, Len(name) - 3) ELSE name
    IN ToLowerCase(SelectSeq(stem, IsAlnum))

\* the places of the .md files of a directory that share a key
PlacesOfKey(dir, key) == {i \in 1..Len(dir) : IsMd(dir[i].name) /\ KeyOf(dir[i].name) = key}

\* the earliest created of them, the first listed among equals
EarliestOf(dir, key) ==
    CHOOSE i \in PlacesOfKey(dir, key) :
        \A j \in PlacesOfKey(dir, key) :
            dir[i].birth < dir[j].birth \/ (dir[i].birth = dir[j].birth /\ i <= j)

\* C22: after a call that completed without an I/O failure, of the .md files
\* that share a normalized key exactly the earliest created is left, the first
\* enumerated among those of equal creation time.
C22_OneSurvivorPerGroup ==
    CleanCompleted =>
        \A i \in 1..Len(clean.before) :
            LET name == clean.before[i].name
            IN IF IsMd(name)
               THEN IsPresent(outDir, name) <=> i = EarliestOf(clean.before, KeyOf(name))
               ELSE IsPresent(outDir, name)

\* a completed call that deleted a file of the same age as the survivor listed
\* before it
C22_Witness ==
    /\ CleanCompleted
    /\ \E i, j \in 1..Len(clean.before) :
          /\ i < j
          /\ i = EarliestOf(clean.before, KeyOf(clean.before[i].name))
          /\ j \in PlacesOfKey(clean.before, KeyOf(clean.before[i].name))
          /\ clean.before[i].birth = clean.before[j].birth
          /\ ~IsPresent(outDir, clean.before[j].name)
          /\ IsPresent(outDir, clean.before[i].name)

\* the directory held exactly these files when the call started, created at
\* times that all differ
StartedOn(names) ==
    /\ {clean.before[i].name : i \in 1..Len(clean.before)} = names
    /\ \A i, j \in 1..Len(clean.before) :
          clean.before[i].birth = clean.before[j].birth => i = j

\* the earliest created of the named files the call started on
EarliestNamed(names) ==
    clean.before[CHOOSE i \in 1..Len(clean.before) :
                    /\ clean.before[i].name \in names
                    /\ \A j \in 1..Len(clean.before) :
                          clean.before[j].name \in names =>
                              clean.before[i].birth <= clean.before[j].birth].name

\* C23: of note.md, Note.md and NOTE (1).md with distinct creation times
\* exactly one file is left after the call, the earliest created.
C23_OneOfThreeRemains ==
    (CleanCompleted /\ StartedOn({FileNote, FileNoteCap, FileNoteCopy})) =>
        NamesOf(outDir) = <<EarliestNamed({FileNote, FileNoteCap, FileNoteCopy})>>

\* C23 as it holds: of three files whose names differ in letter case and in
\* characters that are neither letters nor digits (note.md, Note.md, NOTE ().md)
\* exactly the earliest created is left; NOTE (1).md has the key note1, so of
\* note.md, Note.md and NOTE (1).md two files are left, NOTE (1).md and the
\* earlier created of the other two.
C23_OneOfSameKeyRemains ==
    /\ (CleanCompleted /\ StartedOn({FileNote, FileNoteCap, FileNoteMark})) =>
           NamesOf(outDir) = <<EarliestNamed({FileNote, FileNoteCap, FileNoteMark})>>
    /\ (CleanCompleted /\ StartedOn({FileNote, FileNoteCap, FileNoteCopy})) =>
           {outDir[i].name : i \in 1..Len(outDir)} =
               {FileNoteCopy, EarliestNamed({FileNote, FileNoteCap})}

\* a completed call on note.md, Note.md and NOTE ().md, the last listed being
\* the earliest created
C23_Witness ==
    /\ CleanCompleted
    /\ StartedOn({FileNote, FileNoteCap, FileNoteMark})
    /\ Len(clean.deleted) = 2
    /\ clean.before[3].birth < clean.before[1].birth
    /\ clean.before[3].birth < clean.before[2].birth

\* the directory the call started on without the file that vanished
BeforeLeft == SelectSeq(clean.before, LAMBDA e : e.name \notin clean.vanished)

\* C24: when a call met a failure on one file, every other file that is not the
\* earliest of its group is deleted all the same, in the group of the failure
\* and in the groups after it.
C24_FailureSparesTheBatch ==
    (InClean /\ clean.pc = "done" /\ clean.failed # <<>> /\ clean.failed # <<<<>>>>) =>
        \A i \in 1..Len(BeforeLeft) :
            LET name == BeforeLeft[i].name
            IN (/\ IsMd(name)
                /\ name # clean.failed[1]
                /\ i # EarliestOf(BeforeLeft, KeyOf(name))) => ~IsPresent(outDir, name)

C26_IndexFailurePropagates ==
    InPipeline =>
        \A i \in 1..Len(outLog) :
            (outLog[i].step \in {"mkdir", "writeFile"} /\ ~outLog[i].ok) =>
                /\ i = Len(outLog)
                /\ pc = "threw"
                /\ guards["doc"].outcome[1] # "value"
                /\ guards["sched"].outcome[1] # "value"
                /\ outLog[i].late \/ guards["doc"].outcome = <<"error", outLog[i].step>>
                /\ outDir \in PipelineOutDirs

\* the write of keyword_list.txt failed before any deadline, with two files of
\* one key waiting in the output directory
C26_Witness ==
    /\ InPipeline
    /\ outLog # <<>>
    /\ outLog[Len(outLog)] = [step |-> "writeFile", ok |-> FALSE, deleted |-> 0, late |-> FALSE]
    /\ guards["doc"].outcome = <<"error", "writeFile">>
    /\ Len(outDir) = 2
    /\ runState = "failed"

\* C28: the step that reports the timeout leaves the body where it is: its
\* place, its chunks and results, the call in flight and its abort timer, the
\* keyword list and the output directory are as before, so the body goes on
\* from there.
C28_AbandonedBodyKeepsRunning ==
    [][(InPipeline /\ ~TimeoutReported(guards) /\ TimeoutReported(guards')) =>
          (/\ pc' = pc
           /\ callState' = callState
           /\ processedChunks' = processedChunks
           /\ keywordList' = keywordList
           /\ outDir' = outDir
           /\ \A k \in 1..Len(callState) :
                  callState[k] = "inflight" =>
                      \E i \in 1..Len(timerQ') : timerQ'[i].id = "abort" /\ timerQ'[i].k = k)]_vars

\* after the timeout was reported the body started its second backend call,
\* wrote keyword_list.txt over the old one and deleted a file
C28_Witness ==
    /\ InPipeline
    /\ pc = "returned"
    /\ Len(chunks) >= 2
    /\ callState[1] = "aborted"
    /\ callState[2] = "ok"
    /\ \E i \in 1..Len(outLog) :
          outLog[i].step = "writeFile" /\ outLog[i].ok /\ outLog[i].late
    /\ \E i \in 1..Len(outLog) :
          outLog[i].step = "cleanDuplicateFiles" /\ outLog[i].deleted > 0 /\ outLog[i].late
    /\ keywordList[1] = "file"
    /\ Len(outDir) = 1
    /\ guards["doc"].outcome[1] = "timeout"

\* ------------------------------------------------------- the timeout error
\* C27: the error of an expired deadline is of a kind of its own: no failure
\* of the wrapped operation gives the caller an error of the class the
\* timeout error has.
C27_TimeoutErrorIsDistinct ==
    (mode = "guard" /\ guards["g"].outcome[1] = "error") =>
        Caught(guards["g"]).class # TimeoutError(guards["g"].timeoutMs).class

\* ---------------------------------------------------- claims on the scheduler
InScheduler == mode = "scheduler"

RunsInProgress == {r \in 1..Len(runs) : runs[r].pc # "done"}

\* C29: at most one execution of runProcessing is in progress at any time.
C29_OneRunAtATime == InScheduler => Cardinality(RunsInProgress) <= 1

\* C30: a run takes the documents in the order of the listing, one at a time:
\* a document is started only after all before it settled with a value; after a
\* document that failed or timed out the run starts no other, and it ends
\* logged as failed without raising to its caller.
C30_RunStopsAtFirstFailure ==
    InScheduler =>
        \A r \in 1..Len(runs) :
            LET run == runs[r]
                n == Len(run.started)
                m == Len(run.settled)
            IN /\ n <= Len(MdFiles(inputDir))
               /\ run.started = SubSeq(MdFiles(inputDir), 1, n)
               /\ m = IF run.pc = "process" THEN n - 1 ELSE n
               /\ \A j \in 1..(m - 1) : run.settled[j] = "value"
               /\ (m > 0 /\ run.settled[m] # "value") =>
                      run.pc = "done" /\ run.outcome = "failed"
               /\ run.outcome \in {"none", "completed", "failed"}
               /\ run.pc = "done" <=> run.outcome # "none"

\* the initial run stopped at the timeout of the first of two documents, and
\* the cron task was registered and has started a run since
C30_Witness ==
    /\ InScheduler
    /\ Len(runs) >= 2
    /\ Len(runs[1].files) = 2
    /\ runs[1].started = <<runs[1].files[1]>>
    /\ runs[1].settled = <<"timeout">>
    /\ runs[1].pc = "done"
    /\ runs[2].trigger = "cron"

\* ------------------------------------------- what the reconciler leaves alone
\* the place of a file in the directory the call started on
PlaceBefore(name) == CHOOSE i \in 1..Len(clean.before) : clean.before[i].name = name

\* C31: at every moment of a call, failed or not, each file the call has
\* unlinked is a .md file of a group of at least two and is not the earliest
\* created of its group (the first enumerated among equals); every other file
\* the call started on is still in the directory, unless another process
\* removed it.
C31_KeptFilesStay ==
    InClean =>
        /\ \A k \in 1..Len(clean.deleted) :
              LET name == clean.deleted[k]
                  group == PlacesOfKey(clean.before, KeyOf(name))
              IN /\ IsPresent(clean.before, name)
                 /\ IsMd(name)
                 /\ Cardinality(group) >= 2
                 /\ PlaceBefore(name) # EarliestOf(clean.before, KeyOf(name))
        /\ \A i \in 1..Len(clean.before) :
              LET name == clean.before[i].name
              IN IsPresent(outDir, name) <=>
                     /\ name \notin clean.vanished
                     /\ \A k \in 1..Len(clean.deleted) : clean.deleted[k] # name

\* a call on three files of one group unlinked one of them and ended at the
\* failure of the next unlink: the earliest created is still there
C31_Witness ==
    /\ InClean
    /\ clean.pc = "done"
    /\ clean.vanished = {}
    /\ Len(clean.deleted) = 1
    /\ clean.failed # <<>>
    /\ Len(clean.before) = 3
    /\ Cardinality(PlacesOfKey(clean.before, KeyOf(clean.before[1].name))) = 3
    /\ IsPresent(outDir, clean.before[EarliestOf(clean.before, KeyOf(clean.before[1].name))].name)

\* ------------------------------------------ a failure of the reconciliation
\* C32: cleanDuplicateFiles never rejects.  Whatever it met, the body of
\* processMarkdown returns after it: the call is the last thing the body did,
\* the keyword list is written, and processMarkdown has resolved with the
\* processed text and never has the error of the reconciliation, unless its
\* deadline had rejected it before.
C32_CleanFailureIsSwallowed ==
    InPipeline =>
        \A i \in 1..Len(outLog) :
            outLog[i].step = "cleanDuplicateFiles" =>
                /\ i = Len(outLog)
                /\ pc = "returned"
                /\ keywordList[1] = "file"
                /\ guards["doc"].outcome[1] # "error"
                /\ outLog[i].late \/
                       guards["doc"].outcome = <<"value", applyRules(merged[2])>>

\* the reconciliation failed before it deleted the duplicate in the output
\* directory, before any deadline: processMarkdown resolved with the text
C32_Witness ==
    /\ InPipeline
    /\ outLog # <<>>
    /\ outLog[Len(outLog)] =
           [step |-> "cleanDuplicateFiles", ok |-> FALSE, deleted |-> 0, late |-> FALSE]
    /\ Len(outDir) = 2
    /\ guards["doc"].outcome = <<"value", applyRules(merged[2])>>
    /\ pc = "returned"

\* ------------------------------------------- the markup applyRules returns
\* of the spans of a text, the first of every normalized form
RECURSIVE FirstOfEachForm(_, _, _)
FirstOfEachForm(spans, i, seen) ==
    IF i > Len(spans) THEN <<>>
    ELSE LET normalized == normalizeKeyword(spans[i])
         IN (IF normalized \in seen THEN <<>> ELSE <<spans[i]>>)
                \o FirstOfEachForm(spans, i + 1, seen \cup {normalized})

\* C33: no two spans of the text applyRules returns have the same normalized
\* form, and each of them is the first of its normalized form among the spans
\* that were markup when duplicate suppression ran.
C33_OneSpanPerNormalizedForm ==
    RulesApplied =>
        LET out == SpansOf(rulesOut[2].refs, 1)
            kept == FirstOfEachForm(SpansOf(rulesOut[2].names, 1), 1, {})
        IN /\ \A i, j \in 1..Len(out) :
                  normalizeKeyword(out[i]) = normalizeKeyword(out[j]) => i = j
           /\ \A i \in 1..Len(out) : \E k \in 1..Len(kept) : kept[k] = out[i]

\* ------------------------------------------------- calls that interleave
BothReturned == mode = "interleaved" /\ \A c \in Callers : blProcs[c].pc = "returned"

\* the files a call writes to
FilesOf(c) ==
    {BacklinkFile(BacklinkOps(blProcs[c].content)[k]) :
         k \in 1..Len(BacklinkOps(blProcs[c].content))}

\* C34: when both calls have returned, a file both wrote to has one header
\* line, and a reference line of each call.
C34_NoReferenceLost ==
    BothReturned =>
        \A name \in FilesOf(1) \cap FilesOf(2) :
            /\ name \in DOMAIN backlinksDir
            /\ \A c \in Callers : Includes(backlinksDir[name], ReferenceLine(TitleOf(c)))
            /\ Cardinality({i \in 1..Len(LinesOf(backlinksDir[name])) :
                                IsHeaderLine(LinesOf(backlinksDir[name])[i])}) = 1

\* ------------------------------------------------ claims on delete_duplicates
ToolReturned == mode = "tool" /\ toolResult[1] = "returned"

\* a .md file below the search path
IsSearched(f) == StartsWith(f, DirSearch \o <<"/">>) /\ IsMd(NameOf(f))

\* a file located directly in the directory the argument names
IsDirectlyIn(f, dir) == DirOf(f) = RealDir(dir)

\* another .md file below the search path with the same base name, letter case
\* aside, whose path does not start with the knowledge base path as given
HasCopyElsewhere(before, f, knowledgeBasePath) ==
    \E g \in before :
        /\ g # f
        /\ IsSearched(g)
        /\ ToLowerCase(Sub(NameOf(g), 1, Len(NameOf(g)) - 3))
               = ToLowerCase(Sub(NameOf(f), 1, Len(NameOf(f)) - 3))
        /\ ~StartsWith(g, knowledgeBasePath)

\* C35: the tool deletes only .md files located directly in the knowledge base
\* path that have a copy elsewhere below the search path; every file that is
\* not directly in the knowledge base path is left; every file the tool chose
\* has an entry in the result, "deleted" exactly when the file is gone, so that
\* a refused deletion is recorded and the files after it are deleted all the
\* same.
C35_DeletesOnlyCopiesInKnowledgeBase ==
    ToolReturned =>
        LET r == toolResult[2]
            results == r.deletionResults
        IN /\ tree \subseteq r.before
           /\ \A f \in r.before \ tree :
                  /\ IsMd(NameOf(f))
                  /\ IsDirectlyIn(f, r.knowledgeBasePath)
                  /\ HasCopyElsewhere(r.before, f, r.knowledgeBasePath)
           /\ \A f \in r.before : ~IsDirectlyIn(f, r.knowledgeBasePath) => f \in tree
           /\ \A i \in 1..Len(results) :
                  /\ results[i].file \in r.before
                  /\ results[i].status = "deleted" <=> results[i].file \notin tree
           /\ \A i, j \in 1..Len(results) : results[i].file = results[j].file => i = j
           /\ r.duplicatesFound = Len(results)

\* the tool chose two files of the knowledge base, the first was refused and
\* the second deleted; the copies elsewhere are in place
C35_Witness ==
    /\ ToolReturned
    /\ toolResult[2].knowledgeBasePath = DirKb
    /\ Len(toolResult[2].deletionResults) = 2
    /\ toolResult[2].deletionResults[1].status = "failed"
    /\ toolResult[2].deletionResults[2].status = "deleted"
    /\ PathJoin(DirOther, Doc(1)) \in tree
    /\ PathJoin(DirOther, Doc(2)) \in tree
    /\ PathJoin(DirKb, Doc(1)) \in tree

====
